---- MODULE Spec2Model ----
(***************************************************************************)
(* Collaboration graph analytics: the batch pipeline                       *)
(*   interaction_matrix.py -> compute_metrics.py -> detect_patterns.py     *)
(* over a cleaned interaction log, and the synthetic generator             *)
(* generate_synthetic.py.                                                  *)
(*                                                                         *)
(* Number representation.  Member ids are the numbers i of "M00i", so that *)
(* sorted() is the numeric order.  A weight of a log or of an edge is the  *)
(* decimal the CSV file holds, an integer number of units of 1/10000       *)
(* (0.0001): 10 units are 0.001.  The cells of the weighted matrix, the    *)
(* weighted sums and the activity scores are doubles, computed with the    *)
(* rounding of every float operation (see "Python floats" below), and so   *)
(* are the thresholds they are compared with.  A centrality, a density and the like is the exact fraction       *)
(* <<numerator, denominator>> the library divides out; a denominator of 0  *)
(* is the float division by zero (nan or inf).                             *)
(***************************************************************************)
EXTENDS Integers, Sequences, FiniteSets, TLC

VARIABLES
    pc,                  \* which script of the pipeline ran last
    members,             \* clean_members.csv: rows [member_id, role]
    raw_interactions,    \* data/raw/interactions.csv as clean_data.py reads it
    clean_interactions,  \* clean_interactions.csv: rows [source, target, weight]
    matrix,              \* interaction_matrix.csv
    weighted,            \* weighted_matrix.csv
    adj_list,            \* adj_list.csv
    G,                   \* the DiGraph of compute_metrics.py
    node_metrics,        \* node_metrics.csv
    edge_metrics,        \* edge_metrics.csv
    team_metrics,        \* team_metrics.json
    patterns,            \* the patterns dict (patterns.json when the script ends)
    error,               \* the exception that ended a script, or "none"
    \* generate_synthetic.py; a variable indexed by Runs holds the value in
    \* each of two runs of the script that make the same seeded draws
    START_DATE,          \* per run: the day datetime.now() - DAYS falls on
    pair_affinity,       \* (a, b) -> affinity, a double
    interactions,        \* per run: the list of generated records
    tasks,               \* per run: the list of task dicts
    interaction_count,
    day_idx,             \* position of the loop over date_list
    events_left,         \* iterations left of the loop over range(n_events)
    interactions_df      \* per run: the log sorted for interactions.csv

pipeline_vars == <<raw_interactions, clean_interactions, matrix, weighted, adj_list, G,
                   node_metrics, edge_metrics, team_metrics, patterns>>
generator_vars == <<START_DATE, pair_affinity, interactions, tasks,
                    interaction_count, day_idx, events_left, interactions_df>>
vars == <<pc, members, error, pipeline_vars, generator_vars>>

(***************************************************************************)
(* Bounds and input sets                                                   *)
(***************************************************************************)
MaxLog == 2

\* ids that occur in the input files: M001 .. M004
Ids == {1, 2, 3, 4}

\* target is NaN (a broadcast)
NoTarget == 0

\* source is NaN (the field is empty)
NoSource == 0

\* weights of log records, in units of 0.0001: 0.0004 and 0.001
Weights == {4, 10}

\* member tables of the runs: a team with a leader, a team without a
\* leader whose log may name M003, who is not in the table, and a team of
\* four
MemberTables ==
    { << [member_id |-> 1, role |-> "leader"],
         [member_id |-> 2, role |-> "regular"],
         [member_id |-> 3, role |-> "passive"] >>,
      << [member_id |-> 1, role |-> "active"],
         [member_id |-> 2, role |-> "regular"] >>,
      << [member_id |-> 1, role |-> "regular"],
         [member_id |-> 2, role |-> "regular"],
         [member_id |-> 3, role |-> "active"],
         [member_id |-> 4, role |-> "leader"] >> }

\* the ids the log of a team names: its members, and M003
LogIds(mem) == {mem[i].member_id : i \in DOMAIN mem} \cup {3}

Interaction == [source : Ids, target : Ids \cup {NoTarget}, weight : Weights]

(***************************************************************************)
(* Helpers                                                                 *)
(***************************************************************************)
Range(s) == {s[i] : i \in DOMAIN s}

Min(S) == CHOOSE x \in S : \A y \in S : x <= y

RECURSIVE sorted(_)
sorted(S) == IF S = {} THEN <<>> ELSE <<Min(S)>> \o sorted(S \ {Min(S)})

RECURSIVE SumSeq(_)
SumSeq(s) == IF s = <<>> THEN 0 ELSE s[1] + SumSeq(Tail(s))

RECURSIVE Flatten(_)
Flatten(ss) == IF ss = <<>> THEN <<>> ELSE ss[1] \o Flatten(Tail(ss))

\* the rows of a table that satisfy a condition, in table order
Rows(df, Keep(_)) == SelectSeq(df, Keep)

(***************************************************************************)
(* Python floats: IEEE 754 binary64, every operation rounded to the        *)
(* nearest double, ties to the even significand.  A double is the record   *)
(* [sign, mant, exp] of the number sign * mant * 2^exp, with the           *)
(* significand mant in [2^52, 2^53); 0.0 is FloatZero.  A significand is a *)
(* natural number of any size, written as its limbs of 15 bits, lowest     *)
(* first.  nan, inf, -0.0 and subnormal numbers do not occur in the        *)
(* arithmetic modelled here.                                               *)
(***************************************************************************)
LimbBits == 15

\* bits of the significand of a double
Precision == 53

limb(a, i) == IF i \in DOMAIN a THEN a[i] ELSE 0

\* the limbs of the number whose limbs-to-be are s (each below 2^30), plus c
RECURSIVE carry(_, _)
carry(s, c) ==
    IF s = <<>>
    THEN IF c = 0 THEN <<>>
         ELSE <<c % (2 ^ LimbBits)>> \o carry(<<>>, c \div (2 ^ LimbBits))
    ELSE <<(s[1] + c) % (2 ^ LimbBits)>>
         \o carry(Tail(s), (s[1] + c) \div (2 ^ LimbBits))

\* without leading zero limbs
RECURSIVE trim(_)
trim(a) ==
    IF a # <<>> /\ a[Len(a)] = 0 THEN trim(SubSeq(a, 1, Len(a) - 1)) ELSE a


big_add(a, b) ==
    LET n == IF Len(a) > Len(b) THEN Len(a) ELSE Len(b)
    IN  carry([i \in 1..n |-> limb(a, i) + limb(b, i)], 0)

\* a - b for a >= b
big_sub(a, b) ==
    LET RECURSIVE borrow(_, _, _)
        borrow(x, y, c) ==
            IF x = <<>> THEN <<>>
            ELSE LET v    == x[1] - limb(y, 1) - c
                     rest == IF y = <<>> THEN y ELSE Tail(y)
                 IN  IF v < 0
                     THEN <<v + (2 ^ LimbBits)>> \o borrow(Tail(x), rest, 1)
                     ELSE <<v>> \o borrow(Tail(x), rest, 0)
    IN  trim(borrow(a, b, 0))

\* -1, 0, 1 as a < b, a = b, a > b
big_cmp(a, b) ==
    LET RECURSIVE cmp_from(_)
        cmp_from(i) ==
            IF i = 0 THEN 0
            ELSE IF limb(a, i) < limb(b, i) THEN -1
            ELSE IF limb(a, i) > limb(b, i) THEN 1
            ELSE cmp_from(i - 1)
    IN  cmp_from(IF Len(a) > Len(b) THEN Len(a) ELSE Len(b))

\* a * k for k <= 2^15
big_mul_small(a, k) == carry([i \in DOMAIN a |-> a[i] * k], 0)

big_mul(a, b) ==
    LET RECURSIVE big_mul_from(_)
        big_mul_from(j) ==
            IF j > Len(b) THEN <<>>
            ELSE big_add([i \in 1..(j - 1) |-> 0] \o big_mul_small(a, b[j]),
                         big_mul_from(j + 1))
    IN  trim(big_mul_from(1))

\* a * 2^d
big_shl(a, d) ==
    [i \in 1..(d \div LimbBits) |-> 0] \o big_mul_small(a, 2 ^ (d % LimbBits))

\* floor(a / 2^d)
big_shr(a, d) ==
    LET q == d \div LimbBits
        r == d % LimbBits
    IN  trim([i \in 1..(IF Len(a) > q THEN Len(a) - q ELSE 0) |->
                 (limb(a, i + q) \div (2 ^ r))
                 + (limb(a, i + q + 1) % (2 ^ r)) * (2 ^ (LimbBits - r))])

\* bit d of a (bit 0 is the lowest)
big_bit(a, d) == (limb(a, d \div LimbBits + 1) \div (2 ^ (d % LimbBits))) % 2

\* a mod 2^d is not 0
big_low(a, d) ==
    \/ \E i \in 1..(d \div LimbBits) : limb(a, i) # 0
    \/ limb(a, d \div LimbBits + 1) % (2 ^ (d % LimbBits)) # 0

\* the number of bits of a > 0
big_bits(a) ==
    LET width(top) ==
            CHOOSE k \in 1..LimbBits : 2 ^ (k - 1) <= top /\ top < 2 ^ k
        bits(t) == (Len(t) - 1) * LimbBits + width(t[Len(t)])
    IN  bits(trim(a))

\* quotient and remainder of a / n for 0 < n < 2^16
big_div_small(a, n) ==
    LET append(rest, digit) == [q |-> Append(rest.q, digit), r |-> rest.r]
        RECURSIVE div_from(_, _)
        div_from(i, rem) ==
            IF i = 0 THEN [q |-> <<>>, r |-> rem]
            ELSE append(div_from(i - 1, (rem * (2 ^ LimbBits) + a[i]) % n),
                        (rem * (2 ^ LimbBits) + a[i]) \div n)
        trimmed(d) == [q |-> trim(d.q), r |-> d.r]
    IN  trimmed(div_from(Len(a), 0))

\* the integer a of fewer than 31 bits
RECURSIVE small(_)
small(a) == IF a = <<>> THEN 0 ELSE a[1] + (2 ^ LimbBits) * small(Tail(a))

FloatZero == [sign |-> 0, mant |-> <<>>, exp |-> 0]

\* the double nearest to sign * (n + s) * 2^e with 0 <= s < 1, where sticky
\* tells s > 0 (n has then more than 53 bits): what every operation ends with
fl(sign, n, sticky, e) ==
    LET \* a significand m of 53 or, after a carry, 54 bits
        normal(m, ex) ==
            IF big_bits(m) > Precision
            THEN [sign |-> sign, mant |-> big_shr(m, 1), exp |-> ex + 1]
            ELSE [sign |-> sign, mant |-> m, exp |-> ex]
        \* q is n without its d lowest bits: they round q up when they are
        \* more than half a unit of q, or half a unit and q is odd
        rounded(q, d) ==
            normal(IF /\ big_bit(n, d - 1) = 1
                      /\ \/ sticky
                         \/ big_low(n, d - 1)
                         \/ q[1] % 2 = 1
                   THEN big_add(q, <<1>>) ELSE q,
                   e + d)
        \* n has L bits
        sized(L) ==
            IF L <= Precision
            THEN [sign |-> sign,
                  mant |-> trim(big_shl(trim(n), Precision - L)),
                  exp  |-> e - (Precision - L)]
            ELSE rounded(big_shr(n, L - Precision), L - Precision)
    IN  IF trim(n) = <<>> THEN FloatZero ELSE sized(big_bits(n))

\* float(n) of an int
from_int(n) ==
    fl(IF n < 0 THEN -1 ELSE 1, carry(<<>>, IF n < 0 THEN -n ELSE n), FALSE, 0)

\* the double a decimal text or literal num / den stands for (0 < den < 2^16)
float(num, den) ==
    LET quotient(d) == fl(IF num < 0 THEN -1 ELSE 1, d.q, d.r # 0, -75)
    IN  IF num = 0 THEN FloatZero
        ELSE quotient(big_div_small(
                 big_shl(carry(<<>>, IF num < 0 THEN -num ELSE num), 75), den))

\* |x| against |y| for doubles other than 0.0
mag_cmp(x, y) ==
    IF x.exp < y.exp THEN -1
    ELSE IF x.exp > y.exp THEN 1
    ELSE big_cmp(x.mant, y.mant)

\* x + y
fadd(x, y) ==
    LET \* a and the significand of lo are in units of 2^lo.exp, and c
        \* compares them
        differ(hi, lo, a, c) ==
            IF c = 0 THEN FloatZero
            ELSE fl(IF c > 0 THEN hi.sign ELSE lo.sign,
                    IF c > 0 THEN big_sub(a, lo.mant) ELSE big_sub(lo.mant, a),
                    FALSE, lo.exp)
        aligned(hi, lo, a) ==
            IF hi.sign = lo.sign
            THEN fl(hi.sign, big_add(a, lo.mant), FALSE, lo.exp)
            ELSE differ(hi, lo, a, big_cmp(a, lo.mant))
        \* hi has the larger exponent; lo is too small to count when the
        \* exponents are more than 60 apart
        add(hi, lo) ==
            IF hi.exp - lo.exp > 60 THEN hi
            ELSE aligned(hi, lo, big_shl(hi.mant, hi.exp - lo.exp))
    IN  IF x.sign = 0 THEN y
        ELSE IF y.sign = 0 THEN x
        ELSE IF x.exp >= y.exp THEN add(x, y) ELSE add(y, x)

\* x - y
fsub(x, y) == fadd(x, [y EXCEPT !.sign = -@])

\* x * y
fmul(x, y) ==
    IF x.sign = 0 \/ y.sign = 0 THEN FloatZero
    ELSE fl(x.sign * y.sign, big_mul(x.mant, y.mant), FALSE, x.exp + y.exp)

\* x / n for an int 0 < n < 2^16
fdiv_int(x, n) ==
    LET quotient(d) == fl(x.sign, d.q, d.r # 0, x.exp - 30)
    IN  IF x.sign = 0 THEN FloatZero
        ELSE quotient(big_div_small(big_shl(x.mant, 30), n))

\* x < y
fless(x, y) ==
    IF x.sign # y.sign THEN x.sign < y.sign
    ELSE IF x.sign = 0 THEN FALSE
    ELSE IF x.sign = 1 THEN mag_cmp(x, y) < 0
    ELSE mag_cmp(x, y) > 0

\* x <= y
fleq(x, y) == x = y \/ fless(x, y)

\* the sum of a numpy column of fewer than 8 values: they are added from
\* left to right
RECURSIVE np_sum(_)
np_sum(vals) ==
    IF vals = <<>> THEN FloatZero
    ELSE fadd(np_sum(SubSeq(vals, 1, Len(vals) - 1)), vals[Len(vals)])

\* Series.mean() of a float column: the sum, divided by the count
mean(vals) == fdiv_int(np_sum(vals), Len(vals))

\* the sum of one group of groupby(...).sum(): pandas' loop adds with a
\* running compensation (Kahan summation)
group_sum(vals) ==
    LET RECURSIVE group_sum_from(_, _, _)
        \* y = val - compensation; t = sumx + y;
        \* compensation = t - sumx - y; sumx = t
        store(i, sumx, y, t) ==
            group_sum_from(i + 1, t, fsub(fsub(t, sumx), y))
        add(i, sumx, y) == store(i, sumx, y, fadd(sumx, y))
        group_sum_from(i, sumx, compensation) ==
            IF i > Len(vals) THEN sumx
            ELSE add(i, sumx, fsub(vals[i], compensation))
    IN  group_sum_from(1, FloatZero, FloatZero)

\* round(x, 3) of a double x >= 0, as a number of thousandths: the exact
\* value of x is rounded, halves to the even neighbour
round_3(x) ==
    LET \* n = mantissa * 1000; q is n without its d lowest bits
        rounded(n, d, q) ==
            small(q) + (IF /\ big_bit(n, d - 1) = 1
                           /\ \/ big_low(n, d - 1)
                              \/ limb(q, 1) % 2 = 1
                        THEN 1 ELSE 0)
        thousandths(n) ==
            IF x.exp >= 0 THEN small(big_shl(n, x.exp))
            ELSE rounded(n, -x.exp, big_shr(n, -x.exp))
    IN  IF x.sign = 0 THEN 0 ELSE thousandths(big_mul_small(x.mant, 1000))

\* the literals of the scripts
F_0_2 == float(2, 10)
F_0_3 == float(3, 10)
F_0_4 == float(4, 10)
F_0_5 == float(5, 10)
F_0_6 == float(6, 10)
F_1_0 == float(1, 1)
F_1_5 == float(15, 10)
F_1_6 == float(16, 10)
F_1_8 == float(18, 10)

(***************************************************************************)
(* interaction_matrix.py                                                   *)
(***************************************************************************)
\* df.dropna(subset=["target"])
df_valid(df) == Rows(df, LAMBDA r : r.target # NoTarget)

\* sorted(set(source) | set(target)) as a set; sorted() orders it
matrix_members(dfv) ==
    {dfv[i].source : i \in DOMAIN dfv} \cup {dfv[i].target : i \in DOMAIN dfv}

\* the double read_csv makes of the weight text of clean_interactions.csv,
\* adj_list.csv or edge_metrics.csv (a weight is a number of units of
\* 1/10000)
weight_value(w) == float(w, 10000)

\* (variant: the cell is not rounded to three decimals; the weight is the
\* number of units nearest to it)
Round3As(x) ==
    LET nearest(m, d, q) ==
            small(q) + (IF /\ big_bit(m, d - 1) = 1
                           /\ \/ big_low(m, d - 1)
                              \/ limb(q, 1) % 2 = 1
                        THEN 1 ELSE 0)
        rint(y) ==
            IF y.sign = 0 THEN 0
            ELSE IF y.exp >= 0 THEN y.sign * small(big_shl(y.mant, y.exp))
            ELSE y.sign * nearest(y.mant, -y.exp, big_shr(y.mant, -y.exp))
    IN  rint(fmul(x, from_int(10000)))

\* round(x, 3) of a cell of the weighted matrix, a numpy.float64: numpy
\* multiplies by 1000.0, rounds to the nearest integer (halves to the even
\* one) and divides by 1000.0; the result is a number of thousandths, and
\* the weight the file holds is 10 units for each
Round3(x) ==
    LET \* q is the significand m without its d lowest bits
        nearest(m, d, q) ==
            small(q) + (IF /\ big_bit(m, d - 1) = 1
                           /\ \/ big_low(m, d - 1)
                              \/ limb(q, 1) % 2 = 1
                        THEN 1 ELSE 0)
        rint(y) ==
            IF y.sign = 0 THEN 0
            ELSE IF y.exp >= 0 THEN y.sign * small(big_shl(y.mant, y.exp))
            ELSE y.sign * nearest(y.mant, -y.exp, big_shr(y.mant, -y.exp))
    IN  10 * rint(fmul(x, from_int(1000)))

\* (variant: the count is set to 1 instead of incremented)
RECURSIVE matrix_loopAs(_, _, _)
matrix_loopAs(dfv, mem, k) ==
    IF k = 0
    THEN [matrix   |-> [p \in mem \X mem |-> 0],
          weighted |-> [p \in mem \X mem |-> FloatZero]]
    ELSE LET prev == matrix_loopAs(dfv, mem, k - 1)
             cell == <<dfv[k].source, dfv[k].target>>
         IN  [matrix   |-> [prev.matrix EXCEPT ![cell] = 1],
              weighted |-> [prev.weighted EXCEPT
                               ![cell] = fadd(@, weight_value(dfv[k].weight))]]

\* the loop over df_valid.iterrows(): the two matrices after the first k
\* rows; a cell of the weighted matrix is a double, and the weights of a
\* pair are added to it in the order of the records
RECURSIVE matrix_loop(_, _, _)
matrix_loop(dfv, mem, k) ==
    IF k = 0
    THEN [matrix   |-> [p \in mem \X mem |-> 0],
          weighted |-> [p \in mem \X mem |-> FloatZero]]
    ELSE LET prev == matrix_loop(dfv, mem, k - 1)
             cell == <<dfv[k].source, dfv[k].target>>
         IN  [matrix   |-> [prev.matrix EXCEPT ![cell] = @ + 1],
              weighted |-> [prev.weighted EXCEPT
                               ![cell] = fadd(@, weight_value(dfv[k].weight))]]

\* the adjacency list: for src in members, for tgt in members, if count > 0
adj(mat, wmat, mem) ==
    LET order == sorted(mem)
        row(src) ==
            LET hit == SelectSeq(order, LAMBDA tgt : mat[<<src, tgt>>] > 0)
            IN  [j \in 1..Len(hit) |->
                    [source |-> src, target |-> hit[j],
                     count  |-> mat[<<src, hit[j]>>],
                     weight |-> Round3(wmat[<<src, hit[j]>>])]]
    IN  Flatten([i \in 1..Len(order) |-> row(order[i])])

\* a row with a target and without a source: the set of line 27 holds NaN,
\* a float, next to the text of the target, and sorted() cannot compare them
unsortable(dfv) == \E i \in DOMAIN dfv : dfv[i].source = NoSource

\* sorted() raises TypeError at line 27, before any file is written
BuildInteractionMatrixFails ==
    /\ pc = "cleaned"
    /\ unsortable(df_valid(clean_interactions))
    /\ pc' = "failed"
    /\ error' = "TypeError"
    /\ UNCHANGED <<members, clean_interactions, matrix, weighted, adj_list, G,
                   node_metrics, edge_metrics, team_metrics, patterns,
                   generator_vars, raw_interactions>>

BuildInteractionMatrix ==
    /\ pc = "cleaned"
    /\ ~unsortable(df_valid(clean_interactions))
    /\ LET dfv == df_valid(clean_interactions)
           mem == matrix_members(dfv)
           m   == matrix_loop(dfv, mem, Len(dfv))
       IN  /\ matrix' = m.matrix
           /\ weighted' = m.weighted
           /\ adj_list' = adj(m.matrix, m.weighted, mem)
    /\ pc' = "matrix"
    /\ UNCHANGED <<members, clean_interactions, G, node_metrics, edge_metrics,
                   team_metrics, patterns, error, generator_vars,
                   raw_interactions>>

(***************************************************************************)
(* compute_metrics.py                                                      *)
(***************************************************************************)
\* (variant: the records are grouped by target instead of source)
total_sentAs(df, m) == Len(Rows(df, LAMBDA r : r.target = m))

\* clean_interactions.groupby("source").size(), merged left, fillna(0)
total_sent(df, m) == Len(Rows(df, LAMBDA r : r.source = m))

\* clean_interactions.dropna(subset=["target"]).groupby("target").size()
total_received(df, m) ==
    Len(Rows(df, LAMBDA r : r.target # NoTarget /\ r.target = m))

\* adj_list.groupby("source")["weight"].sum(), merged left, fillna(0)
weighted_sent(adjl, m) ==
    LET mine == Rows(adjl, LAMBDA e : e.source = m)
    IN  group_sum([i \in 1..Len(mine) |-> weight_value(mine[i].weight)])

\* adj_list.groupby("target")["weight"].sum(), merged left, fillna(0)
weighted_received(adjl, m) ==
    LET mine == Rows(adjl, LAMBDA e : e.target = m)
    IN  group_sum([i \in 1..Len(mine) |-> weight_value(mine[i].weight)])

\* total_sent * 0.4 + total_received * 0.2 + weighted_sent * 0.4, the two
\* int columns converted to float64, every product and sum rounded
activity_score(ts, tr, ws) ==
    fadd(fadd(fmul(from_int(ts), F_0_4), fmul(from_int(tr), F_0_2)),
         fmul(ws, F_0_4))

\* nx.DiGraph(): a node per member, then an edge per row of the adjacency
\* list (add_edge also adds the end points that are not nodes yet)
build_graph(mem, adjl) ==
    [nodes  |-> {mem[i].member_id : i \in DOMAIN mem}
                \cup {adjl[i].source : i \in DOMAIN adjl}
                \cup {adjl[i].target : i \in DOMAIN adjl},
     edges  |-> {<<adjl[i].source, adjl[i].target>> : i \in DOMAIN adjl},
     weight |-> [e \in {<<adjl[i].source, adjl[i].target>> : i \in DOMAIN adjl} |->
                    LET i == CHOOSE j \in DOMAIN adjl :
                                 <<adjl[j].source, adjl[j].target>> = e
                    IN  adjl[i].weight]]

in_degree(g, v) == Cardinality({e \in g.edges : e[2] = v})
out_degree(g, v) == Cardinality({e \in g.edges : e[1] = v})

\* nx.degree_centrality / in_degree_centrality / out_degree_centrality:
\* 1 on a graph of at most one node, else degree / (n - 1)
centrality(g, d) ==
    IF Cardinality(g.nodes) <= 1 THEN <<1, 1>>
    ELSE <<d, Cardinality(g.nodes) - 1>>

\* G.to_undirected(): the unordered pairs {u, v} ({u} is a self-loop)
to_undirected(g) == {{e[1], e[2]} : e \in g.edges}

\* nx.density
density(g) ==
    LET n == Cardinality(g.nodes)
        m == Cardinality(g.edges)
    IN  IF m = 0 \/ n <= 1 THEN <<0, 1>> ELSE <<m, n * (n - 1)>>

\* nx.reciprocity -> overall_reciprocity; raises on a graph without edges
reciprocity(g) ==
    LET n_all_edge == Cardinality(g.edges)
    IN  <<(n_all_edge - Cardinality(to_undirected(g))) * 2, n_all_edge>>

\* fractions <<numerator, denominator>>
FracAdd(a, b) == <<a[1] * b[2] + b[1] * a[2], a[2] * b[2]>>

RECURSIVE FracSum(_)
FracSum(s) == IF s = <<>> THEN <<0, 1>> ELSE FracAdd(s[1], FracSum(Tail(s)))

\* nx.clustering of one node of the undirected graph: self-loops are left
\* out; 2 * triangles / (d * (d - 1)), and 0 without a triangle
clustering(ug, v) ==
    LET nbrs(x) == {w \in UNION ug : w # x /\ {x, w} \in ug}
        d == Cardinality(nbrs(v))
        t == Cardinality({p \in nbrs(v) \X nbrs(v) :
                              p[1] # p[2] /\ {p[1], p[2]} \in ug})
    IN  IF t = 0 THEN <<0, 1>> ELSE <<t, d * (d - 1)>>

\* nx.average_clustering: sum(c) / len(c) over all nodes
average_clustering(nodes, ug) ==
    LET order == sorted(nodes)
        total == FracSum([i \in 1..Len(order) |-> clustering(ug, order[i])])
    IN  <<total[1], total[2] * Len(order)>>

\* one row of node_metrics.csv
metrics_row(m, df, adjl, g) ==
    LET sent == weighted_sent(adjl, m)
    IN  [member_id             |-> m,
         total_sent            |-> total_sent(df, m),
         total_received        |-> total_received(df, m),
         weighted_sent         |-> sent,
         weighted_received     |-> weighted_received(adjl, m),
         degree_centrality     |-> centrality(g, in_degree(g, m) + out_degree(g, m)),
         in_degree_centrality  |-> centrality(g, in_degree(g, m)),
         out_degree_centrality |-> centrality(g, out_degree(g, m)),
         activity_score        |-> activity_score(total_sent(df, m),
                                                  total_received(df, m), sent)]

\* adj_list plus norm_weight = weight / weight.max()
edge_metrics_of(adjl) ==
    LET top == CHOOSE w \in {adjl[i].weight : i \in DOMAIN adjl} :
                   \A j \in DOMAIN adjl : adjl[j].weight <= w
    IN  [i \in DOMAIN adjl |->
            [source |-> adjl[i].source, target |-> adjl[i].target,
             count  |-> adjl[i].count,  weight |-> adjl[i].weight,
             norm_weight |-> <<adjl[i].weight, top>>]]

\* An adjacency list without rows is a file without columns: read_csv
\* raises on it, and nothing is written.
ComputeMetricsFails ==
    /\ pc = "matrix"
    /\ adj_list = <<>>
    /\ pc' = "failed"
    /\ error' = "EmptyDataError"
    /\ UNCHANGED <<members, clean_interactions, matrix, weighted, adj_list, G,
                   node_metrics, edge_metrics, team_metrics, patterns, generator_vars,
                   raw_interactions>>

ComputeMetrics ==
    /\ pc = "matrix"
    /\ adj_list # <<>>
    /\ G' = build_graph(members, adj_list)
    /\ node_metrics' =
           [i \in DOMAIN members |->
               metrics_row(members[i].member_id, clean_interactions, adj_list, G')]
    /\ edge_metrics' = edge_metrics_of(adj_list)
    /\ team_metrics' =
           [density            |-> density(G'),
            reciprocity        |-> reciprocity(G'),
            num_nodes          |-> Cardinality(G'.nodes),
            num_edges          |-> Cardinality(G'.edges),
            average_clustering |->
                average_clustering(G'.nodes, to_undirected(G'))]
    /\ pc' = "metrics"
    /\ UNCHANGED <<members, clean_interactions, matrix, weighted, adj_list,
                   patterns, error, generator_vars,
                   raw_interactions>>

(***************************************************************************)
(* detect_patterns.py                                                      *)
(***************************************************************************)
\* the member_id column of the rows that satisfy a condition
member_ids_where(nm, Keep(_)) ==
    LET hit == Rows(nm, Keep) IN [i \in 1..Len(hit) |-> hit[i].member_id]

\* avg_activity = node_metrics["activity_score"].mean()
avg_activity(nm) == mean([i \in 1..Len(nm) |-> nm[i].activity_score])

\* node_metrics["total_received"].mean(): the int sum divided by the count
avg_received(nm) ==
    float(SumSeq([i \in 1..Len(nm) |-> nm[i].total_received]), Len(nm))

\* the double of a centrality <<d, n - 1>>: networkx computes d * s with
\* s = 1.0 / (n - 1.0)
centrality_value(c) == fmul(from_int(c[1]), float(1, c[2]))

\* node_metrics["degree_centrality"].mean()
avg_degree(nm) ==
    mean([i \in 1..Len(nm) |-> centrality_value(nm[i].degree_centrality)])

\* edge_metrics["weight"].mean()
avg_weight(em) == mean([i \in 1..Len(em) |-> weight_value(em[i].weight)])

\* (variant: one of the two counts being 0 is enough)
isolatedAs(nm) ==
    member_ids_where(nm, LAMBDA r : r.total_sent = 0 \/ r.total_received = 0)

\* total_sent == 0 and total_received == 0
isolated(nm) ==
    member_ids_where(nm, LAMBDA r : r.total_sent = 0 /\ r.total_received = 0)

\* (variant: the comparison is turned around)
passiveAs(nm) ==
    LET threshold == fmul(avg_activity(nm), F_0_4)
    IN  member_ids_where(nm, LAMBDA r : fless(threshold, r.activity_score))

\* activity_score < avg_activity * 0.4
passive(nm) ==
    LET threshold == fmul(avg_activity(nm), F_0_4)
    IN  member_ids_where(nm, LAMBDA r : fless(r.activity_score, threshold))

\* (variant: the factor is 0.18)
dominantAsTenth(nm) ==
    LET threshold == fmul(avg_activity(nm), float(18, 100))
    IN  member_ids_where(nm, LAMBDA r : fless(threshold, r.activity_score))

\* (variant: the comparison is turned around)
dominantAs(nm) ==
    LET threshold == fmul(avg_activity(nm), F_1_8)
    IN  member_ids_where(nm, LAMBDA r : fless(r.activity_score, threshold))

\* activity_score > avg_activity * 1.8
dominant(nm) ==
    LET threshold == fmul(avg_activity(nm), F_1_8)
    IN  member_ids_where(nm, LAMBDA r : fless(threshold, r.activity_score))

pair_rows(hit) ==
    [i \in 1..Len(hit) |->
        [source |-> hit[i].source, target |-> hit[i].target,
         weight |-> hit[i].weight]]

\* weight >= strong_threshold, with strong_threshold = mean(weight) * 1.5
strong_pairs(em) ==
    LET strong_threshold == fmul(avg_weight(em), F_1_5)
    IN  pair_rows(Rows(em,
            LAMBDA e : fleq(strong_threshold, weight_value(e.weight))))

\* weight <= weak_threshold, with weak_threshold = mean(weight) * 0.5
weak_pairs(em) ==
    LET weak_threshold == fmul(avg_weight(em), F_0_5)
    IN  pair_rows(Rows(em,
            LAMBDA e : fleq(weight_value(e.weight), weak_threshold)))

\* the nodes of the rebuilt graph in insertion order: the members in table
\* order, then the other end points in the order the edge rows name them
RECURSIVE dedup(_)
dedup(s) ==
    IF s = <<>> THEN <<>>
    ELSE LET front == dedup(SubSeq(s, 1, Len(s) - 1))
         IN  IF s[Len(s)] \in Range(front) THEN front
             ELSE Append(front, s[Len(s)])

node_order(mem, em) ==
    dedup([i \in DOMAIN mem |-> mem[i].member_id]
          \o Flatten([i \in DOMAIN em |-> <<em[i].source, em[i].target>>]))

position(order, v) == CHOOSE i \in DOMAIN order : order[i] = v

\* the weight to_undirected() leaves on {u, v}: the edges are copied source
\* by source in node order, and a later copy overwrites the earlier one
undirected_weight(g, order, u, v) ==
    IF <<u, v>> \in g.edges /\ <<v, u>> \in g.edges
    THEN IF position(order, u) >= position(order, v)
         THEN g.weight[<<u, v>>] ELSE g.weight[<<v, u>>]
    ELSE IF <<u, v>> \in g.edges THEN g.weight[<<u, v>>]
    ELSE IF <<v, u>> \in g.edges THEN g.weight[<<v, u>>]
    ELSE 0

\* weighted degree of a node of the undirected graph (a self-loop counts twice)
weighted_degree(g, order, u) ==
    SumSeq([i \in DOMAIN order |->
               IF order[i] = u THEN 2 * undirected_weight(g, order, u, u)
               ELSE undirected_weight(g, order, u, order[i])])

\* 2 * m, with m = UG.size(weight="weight")
twice_size(g, order) ==
    SumSeq([i \in DOMAIN order |-> weighted_degree(g, order, order[i])])

SumOver(S, f(_)) ==
    LET RECURSIVE go(_)
        go(T) == IF T = {} THEN 0
                 ELSE LET x == CHOOSE y \in T : TRUE IN f(x) + go(T \ {x})
    IN  go(S)

\* the gain dq of merging communities A and B, times 2 * m * m: in the code
\* dq = W(A, B) / m - 2 * a[A] * a[B] with a = degree / (2 * m)
merge_gain(g, order, A, B) ==
    twice_size(g, order)
        * SumOver(A \X B, LAMBDA p : undirected_weight(g, order, p[1], p[2]))
    - SumOver(A, LAMBDA u : weighted_degree(g, order, u))
        * SumOver(B, LAMBDA u : weighted_degree(g, order, u))

\* rows of dq_dict: communities joined by at least one edge
joined(g, A, B) ==
    \E u \in A, v \in B : <<u, v>> \in g.edges \/ <<v, u>> \in g.edges

\* the merge loop of greedy_modularity_communities: comm maps the label of a
\* community (one of its nodes) to its nodes.  The heap pops the largest dq,
\* ties by the smaller (u, v); u is merged into v; the loop ends when no two
\* communities are joined or the best dq is negative.
RECURSIVE merge_loop(_, _, _)
merge_loop(g, order, comm) ==
    LET labels == DOMAIN comm
        pairs == {p \in labels \X labels :
                     p[1] # p[2] /\ joined(g, comm[p[1]], comm[p[2]])}
        gain(p) == merge_gain(g, order, comm[p[1]], comm[p[2]])
        before(p, q) ==
            \/ gain(p) > gain(q)
            \/ /\ gain(p) = gain(q)
               /\ \/ p[1] < q[1]
                  \/ p[1] = q[1] /\ p[2] <= q[2]
    IN  IF pairs = {} \/ Cardinality(labels) <= 1 THEN comm
        ELSE LET best == CHOOSE p \in pairs : \A q \in pairs : before(p, q)
             IN  IF gain(best) < 0 THEN comm
                 ELSE merge_loop(g, order,
                        [l \in labels \ {best[1]} |->
                            IF l = best[2] THEN comm[best[1]] \cup comm[best[2]]
                            ELSE comm[l]])

\* sorted(communities, key=len, reverse=True): stable, so communities of one
\* size stay in the node order of their labels
RECURSIVE by_size(_, _, _)
by_size(comm, order, size) ==
    IF size = 0 THEN <<>>
    ELSE LET here == SelectSeq(order,
                        LAMBDA l : l \in DOMAIN comm /\ Cardinality(comm[l]) = size)
         IN  [i \in 1..Len(here) |-> comm[here[i]]]
             \o by_size(comm, order, size - 1)

greedy_modularity_communities(g, order) ==
    by_size(merge_loop(g, order, [n \in g.nodes |-> {n}]), order,
            Cardinality(g.nodes))

\* the role-mismatch reasons of the first leader row
role_mismatch(mem, nm) ==
    LET leader_row == Rows(mem, LAMBDA r : r.role = "leader")
    IN  IF leader_row = <<>> THEN <<>>
        ELSE LET leader == leader_row[1].member_id
                 leader_stats == Rows(nm, LAMBDA r : r.member_id = leader)[1]
             IN  (IF fless(centrality_value(leader_stats.degree_centrality),
                           avg_degree(nm))
                  THEN <<"Leader has low degree centrality (not well-connected).">>
                  ELSE <<>>)
              \o (IF fless(leader_stats.activity_score,
                           fmul(avg_activity(nm), F_0_6))
                  THEN <<"Leader is unusually inactive.">>
                  ELSE <<>>)
              \o (IF fless(from_int(leader_stats.total_received),
                           fmul(avg_received(nm), F_0_5))
                  THEN <<"Leader receives unusually low communication.">>
                  ELSE <<>>)

\* the patterns dict after the five list steps
first_patterns(nm, em) ==
    [isolated_members |-> isolated(nm),
     passive_members  |-> passive(nm),
     dominant_members |-> dominant(nm),
     strong_pairs     |-> strong_pairs(em),
     weak_pairs       |-> weak_pairs(em)]

\* The graph has edges but their weights sum to 0: the community step
\* divides by the total weight and raises; the lists computed before it stay
\* in the patterns dict, patterns.json is not written.
DetectPatternsFails ==
    /\ pc = "metrics"
    /\ LET g == build_graph(members, edge_metrics)
           order == node_order(members, edge_metrics)
       IN  /\ g.edges # {}
           /\ twice_size(g, order) = 0
    /\ patterns' = first_patterns(node_metrics, edge_metrics)
    /\ pc' = "failed"
    /\ error' = "ZeroDivisionError"
    /\ UNCHANGED <<members, clean_interactions, matrix, weighted, adj_list, G,
                   node_metrics, edge_metrics, team_metrics, generator_vars,
                   raw_interactions>>

DetectPatterns ==
    /\ pc = "metrics"
    /\ LET g == build_graph(members, edge_metrics)
       IN  g.edges = {} \/ twice_size(g, node_order(members, edge_metrics)) # 0
    /\ patterns' =
           LET g == build_graph(members, edge_metrics)
               order == node_order(members, edge_metrics)
               first == first_patterns(node_metrics, edge_metrics)
           IN  [isolated_members |-> first.isolated_members,
                passive_members  |-> first.passive_members,
                dominant_members |-> first.dominant_members,
                strong_pairs     |-> first.strong_pairs,
                weak_pairs       |-> first.weak_pairs,
                subgroups        |->
                    IF to_undirected(g) # {}
                    THEN greedy_modularity_communities(g, order)
                    ELSE <<>>,
                role_mismatch    |-> role_mismatch(members, node_metrics)]
    /\ pc' = "patterns"
    /\ UNCHANGED <<members, clean_interactions, matrix, weighted, adj_list, G,
                   node_metrics, edge_metrics, team_metrics, error,
                   generator_vars,
                   raw_interactions>>

(***************************************************************************)
(* generate_synthetic.py                                                   *)
(*                                                                         *)
(* random and numpy.random are seeded with SEED, so two runs of the script *)
(* make the same draws; datetime.now() is read from the wall clock.  A     *)
(* draw is a choice from a small set of the outcomes the call can return.  *)
(* A timestamp is <<day, hour, minute, second>>, a day being a day number. *)
(* Affinities are doubles; the drawn jitters and clique bonuses are in     *)
(* hundredths, base weights in tenths and record weights in thousandths.   *)
(***************************************************************************)
Runs == {1, 2}

\* scaled stand-ins for DAYS = 30 and TARGET_INTERACTIONS = 7000
DAYS == 2
TARGET_INTERACTIONS == 3

\* most events a day's Poisson draw yields
MaxEvents == 2

\* the days the wall clock can show when a run starts
WallClockDays == {40, 41}

\* outcomes of the draws of one event
DrawnHours == {15}
DrawnMinutes == {0}
DrawnSeconds == {0}
DrawnSources == {1, 2}
DrawnTypes == {"message", "task_assign", "task_complete"}
DrawnPlatforms == {"slack"}
DrawnJitters == {100}
DrawnDueDays == {1}

\* a team the set-up code can build (lines 65-136): six members, one of
\* each special role, the clique {M001, M002, M003}, every clique bonus 2.0
GenTeams ==
    { [members |-> << [member_id |-> 1, role |-> "active"],
                      [member_id |-> 2, role |-> "leader"],
                      [member_id |-> 3, role |-> "regular"],
                      [member_id |-> 4, role |-> "passive"],
                      [member_id |-> 5, role |-> "isolated"],
                      [member_id |-> 6, role |-> "regular"] >>,
       clique  |-> {1, 2, 3}] }

member_ids(mem) == [i \in DOMAIN mem |-> mem[i].member_id]

MIN_MEMBERS == 5
MAX_MEMBERS == 6

\* lines 66-75: the members M001 .. of a team, every role "regular"
build_team(team_size) ==
    [i \in 1..team_size |-> [member_id |-> i, role |-> "regular"]]

\* for m in members: if m["member_id"] == who: m["role"] = role
set_role(mem, who, role) ==
    [i \in DOMAIN mem |->
        IF mem[i].member_id \in who THEN [mem[i] EXCEPT !.role = role]
        ELSE mem[i]]

\* the variables leader and actives, read back from the roles: no later
\* line writes a role over "leader", and "active" is only written at line 90
leader_of(mem) == {mem[i].member_id : i \in {j \in DOMAIN mem : mem[j].role = "leader"}}
actives_of(mem) == {mem[i].member_id : i \in {j \in DOMAIN mem : mem[j].role = "active"}}

\* remaining = [m for m in member_ids if m != leader]
remaining(mem) == Range(member_ids(mem)) \ leader_of(mem)

\* n_actives = min(2, max(1, len(remaining) // 3))
n_actives(mem) ==
    LET third == Cardinality(remaining(mem)) \div 3
        most  == IF third > 1 THEN third ELSE 1
    IN  IF most < 2 THEN most ELSE 2

\* (variant: the active members are not left out)
possibleAs(mem) == Range(member_ids(mem)) \ leader_of(mem)

\* possible = [m for m in member_ids if m not in [leader] + actives]
possible(mem) == Range(member_ids(mem)) \ (leader_of(mem) \cup actives_of(mem))

role_of(mem, m) == Rows(mem, LAMBDA r : r.member_id = m)[1].role

\* (variant: an isolated b has the affinity 0)
affinityAs(mem, clique, bonus, a, b) ==
    LET base  == IF a \in clique /\ b \in clique
                 THEN fmul(F_1_0, float(bonus, 100)) ELSE F_1_0
        lead  == IF role_of(mem, a) = "leader" THEN fmul(base, F_1_6) ELSE base
    IN  IF role_of(mem, b) = "isolated" THEN FloatZero ELSE lead

\* the affinity of the ordered pair (a, b): base = 1.0, base *= the clique
\* bonus (drawn, in hundredths), base *= 1.6 for a leader a, base *= 0.3
\* for an isolated b
affinity(mem, clique, bonus, a, b) ==
    LET base  == IF a \in clique /\ b \in clique
                 THEN fmul(F_1_0, float(bonus, 100)) ELSE F_1_0
        lead  == IF role_of(mem, a) = "leader" THEN fmul(base, F_1_6) ELSE base
    IN  IF role_of(mem, b) = "isolated" THEN fmul(lead, F_0_3) ELSE lead

build_pair_affinity(mem, clique, bonus) ==
    [p \in {q \in Range(member_ids(mem)) \X Range(member_ids(mem)) : q[1] # q[2]}
        |-> affinity(mem, clique, bonus, p[1], p[2])]

\* int(np.clip(x, 8, 23))
clip_hour(x) == IF x < 8 THEN 8 ELSE IF x > 23 THEN 23 ELSE x

\* the base weight of an interaction type, in tenths
base_weight(itype) ==
    CASE itype = "message"       -> 10
      [] itype = "reply"         -> 12
      [] itype = "task_assign"   -> 21
      [] itype = "task_complete" -> 26
      [] itype = "comment"       -> 13
      [] itype = "review"        -> 18
      [] OTHER                   -> 10

\* round(float(base_weight * affinity_scale * random.uniform(0.85, 1.25)), 3)
\* in thousandths; base is in tenths, jitter is the drawn number, in
\* hundredths
rounded_weight(base, affinity_scale, jitter) ==
    round_3(fmul(fmul(float(base, 10), affinity_scale), float(jitter, 100)))

\* the values a pair affinity takes with the clique bonus 2.0
AffinityScales ==
    LET bases == {F_1_0, fmul(F_1_0, float(200, 100))}
        leads == bases \cup {fmul(b, F_1_6) : b \in bases}
    IN  leads \cup {fmul(l, F_0_3) : l \in leads}

\* the weights of the drawn events, computed once
drawn_weights ==
    {<<k, rounded_weight(k[1], k[2], k[3])>> :
        k \in {base_weight(t) : t \in DrawnTypes} \X AffinityScales \X DrawnJitters}

\* the weight of an event (lines 211-213)
event_weight(itype, source, target, aff, jitter) ==
    LET affinity_scale == IF target = NoTarget THEN F_1_0
                          ELSE aff[<<source, target>>]
        k == <<base_weight(itype), affinity_scale, jitter>>
    IN  IF \E e \in drawn_weights : e[1] = k
        THEN (CHOOSE e \in drawn_weights : e[1] = k)[2]
        ELSE rounded_weight(k[1], k[2], k[3])

\* datetime(day.year, day.month, day.day, hour, minute, second), with
\* day = date_list[day_idx] = START_DATE + timedelta(days=day_idx)
timestamp(start, d, hour, minute, second) == <<start + d, hour, minute, second>>

\* ts + timedelta(days=due_days)
plus_days(ts, n) == <<ts[1] + n, ts[2], ts[3], ts[4]>>

\* order of isoformat strings
RECURSIVE ts_less(_, _)
ts_less(a, b) ==
    IF a = <<>> THEN FALSE
    ELSE \/ a[1] < b[1]
         \/ a[1] = b[1] /\ ts_less(Tail(a), Tail(b))

\* (variant: of the records of one timestamp only the last one is kept)
RECURSIVE sort_valuesAs(_)
sort_valuesAs(df) ==
    IF df = <<>> THEN <<>>
    ELSE LET front == sort_valuesAs(SubSeq(df, 1, Len(df) - 1))
             last  == df[Len(df)]
             keep  == SelectSeq(front, LAMBDA r : ts_less(r.timestamp, last.timestamp))
             rest  == SelectSeq(front, LAMBDA r : ts_less(last.timestamp, r.timestamp))
         IN  keep \o <<last>> \o rest

\* sort_values("timestamp"): on a short list the sort is an insertion sort,
\* which keeps records of equal timestamps in their order
RECURSIVE sort_values(_)
sort_values(df) ==
    IF df = <<>> THEN <<>>
    ELSE LET front == sort_values(SubSeq(df, 1, Len(df) - 1))
             last  == df[Len(df)]
             keep  == SelectSeq(front, LAMBDA r : ~ts_less(last.timestamp, r.timestamp))
             rest  == SelectSeq(front, LAMBDA r : ts_less(last.timestamp, r.timestamp))
         IN  keep \o <<last>> \o rest

\* (variant: every task is a candidate, whatever its status)
team_tasksAs(ts) == DOMAIN ts

\* the indices of the tasks of the team that are still assigned
team_tasks(ts) == {i \in DOMAIN ts : ts[i].status = "assigned"}

\* (variant: the task is completed in the name of the member it was
\* assigned to)
tasks_logicAs(ts, itype, source, target, at, due_days, pick) ==
    IF itype = "task_assign"
    THEN Append(ts, [assigned_by  |-> source,
                     assigned_to  |-> IF target # NoTarget THEN target ELSE source,
                     assigned_at  |-> at,
                     due_date     |-> plus_days(at, due_days),
                     status       |-> "assigned",
                     completed_by |-> NoTarget,
                     completed_at |-> <<>>])
    ELSE IF itype = "task_complete" /\ pick \in team_tasks(ts)
    THEN [ts EXCEPT ![pick] = [@ EXCEPT !.status = "completed",
                                        !.completed_by = ts[pick].assigned_to,
                                        !.completed_at = at]]
    ELSE ts

\* (variant: a task_assign event without a target creates no task)
tasks_logicAsTargeted(ts, itype, source, target, at, due_days, pick) ==
    IF itype = "task_assign" /\ target # NoTarget
    THEN Append(ts, [assigned_by  |-> source,
                     assigned_to  |-> target,
                     assigned_at  |-> at,
                     due_date     |-> plus_days(at, due_days),
                     status       |-> "assigned",
                     completed_by |-> NoTarget,
                     completed_at |-> <<>>])
    ELSE IF itype = "task_complete" /\ pick \in team_tasks(ts)
    THEN [ts EXCEPT ![pick] = [@ EXCEPT !.status = "completed",
                                        !.completed_by = source,
                                        !.completed_at = at]]
    ELSE ts

\* the tasks logic of one event (lines 232-250); pick is the index
\* random.choice returns, 0 when there is nothing to choose from
tasks_logic(ts, itype, source, target, at, due_days, pick) ==
    IF itype = "task_assign"
    THEN Append(ts, [assigned_by  |-> source,
                     assigned_to  |-> IF target # NoTarget THEN target ELSE source,
                     assigned_at  |-> at,
                     due_date     |-> plus_days(at, due_days),
                     status       |-> "assigned",
                     completed_by |-> NoTarget,
                     completed_at |-> <<>>])
    ELSE IF itype = "task_complete" /\ pick \in team_tasks(ts)
    THEN [ts EXCEPT ![pick] = [@ EXCEPT !.status = "completed",
                                        !.completed_by = source,
                                        !.completed_at = at]]
    ELSE ts

\* The role assignment (lines 65-108), one action per random choice.
RolesInit ==
    /\ pc = "team"
    /\ \E team_size \in MIN_MEMBERS..MAX_MEMBERS : members = build_team(team_size)
    /\ error = "none"
    /\ raw_interactions = <<>>
    /\ clean_interactions = <<>> /\ matrix = <<>> /\ weighted = <<>>
    /\ adj_list = <<>> /\ node_metrics = <<>> /\ edge_metrics = <<>>
    /\ team_metrics = <<>> /\ patterns = <<>>
    /\ G = [nodes |-> {}, edges |-> {}, weight |-> <<>>]
    /\ START_DATE = <<>> /\ pair_affinity = <<>> /\ interactions = <<>>
    /\ tasks = <<>> /\ interaction_count = 0 /\ day_idx = 0
    /\ events_left = 0 /\ interactions_df = <<>>

\* lines 79-82
ChooseLeader ==
    /\ pc = "team"
    /\ \E leader \in Range(member_ids(members)) :
           members' = set_role(members, {leader}, "leader")
    /\ pc' = "leader"
    /\ UNCHANGED <<error, pipeline_vars, generator_vars>>

\* lines 84-90
ChooseActives ==
    /\ pc = "leader"
    /\ \E actives \in SUBSET remaining(members) :
           /\ Cardinality(actives) = n_actives(members)
           /\ members' = set_role(members, actives, "active")
    /\ pc' = "actives"
    /\ UNCHANGED <<error, pipeline_vars, generator_vars>>

\* lines 93-99
ChoosePassive ==
    /\ pc = "actives"
    /\ IF Len(members) >= 5 /\ possible(members) # {}
       THEN \E who \in possible(members) :
                members' = set_role(members, {who}, "passive")
       ELSE UNCHANGED members
    /\ pc' = "passive"
    /\ UNCHANGED <<error, pipeline_vars, generator_vars>>

\* lines 102-108; coin is random.random() < 0.5
ChooseIsolated ==
    /\ pc = "passive"
    /\ \E coin \in BOOLEAN :
           IF coin /\ possible(members) # {}
           THEN \E iso \in possible(members) :
                    members' = set_role(members, {iso}, "isolated")
           ELSE UNCHANGED members
    /\ pc' = "roles"
    /\ UNCHANGED <<error, pipeline_vars, generator_vars>>

RolesNext ==
    \/ ChooseLeader
    \/ ChooseActives
    \/ ChoosePassive
    \/ ChooseIsolated

SpecRoles == RolesInit /\ [][RolesNext]_vars

\* START_DATE = datetime.now() - timedelta(days=DAYS)
start_date(now) == now - DAYS

\* the day after the last event of a day, or after a day without events;
\* after the last day the while loop starts the day range again
next_day(d) == IF d + 1 < DAYS THEN d + 1 ELSE 0

\* (variant: the loop is left one interaction early)
loop_doneAs(count) == count + 1 >= TARGET_INTERACTIONS

\* interaction_count >= TARGET_INTERACTIONS: the test of the three breaks
\* (lines 252-257), which is the negated test of the while loop
loop_done(count) == count >= TARGET_INTERACTIONS

PipelineIdle ==
    /\ raw_interactions = <<>>
    /\ clean_interactions = <<>>
    /\ matrix = <<>>
    /\ weighted = <<>>
    /\ adj_list = <<>>
    /\ G = [nodes |-> {}, edges |-> {}, weight |-> <<>>]
    /\ node_metrics = <<>>
    /\ edge_metrics = <<>>
    /\ team_metrics = <<>>
    /\ patterns = <<>>

GeneratorIdle ==
    /\ START_DATE = <<>>
    /\ pair_affinity = <<>>
    /\ interactions = <<>>
    /\ tasks = <<>>
    /\ interaction_count = 0
    /\ day_idx = 0
    /\ events_left = 0
    /\ interactions_df = <<>>

\* the state when the simulation loop is entered (line 149): both runs have
\* built the same team and the same affinities from the same draws
GenInit ==
    /\ pc = "loop"
    /\ error = "none"
    /\ PipelineIdle
    /\ \E team \in GenTeams :
           /\ members = team.members
           /\ pair_affinity = build_pair_affinity(team.members, team.clique, 200)
    /\ \E now \in [Runs -> WallClockDays] :
           /\ now[1] = Min(WallClockDays)
           /\ START_DATE = [r \in Runs |-> start_date(now[r])]
    /\ interactions = [r \in Runs |-> <<>>]
    /\ tasks = [r \in Runs |-> <<>>]
    /\ interaction_count = 0
    /\ day_idx = 0
    /\ events_left = 0
    /\ interactions_df = [r \in Runs |-> <<>>]

\* the top of the loop over date_list (lines 150-158): the number of events
\* of the day is a Poisson draw, which burst and quiet days only make
\* more or less likely to be large
DrawEvents ==
    /\ pc = "loop"
    /\ events_left = 0
    /\ \E n_events \in 0..MaxEvents :
           /\ events_left' = n_events
           /\ day_idx' = IF n_events = 0 THEN next_day(day_idx) ELSE day_idx
    /\ UNCHANGED <<pc, members, error, pipeline_vars, START_DATE, pair_affinity,
                   interactions, tasks, interaction_count, interactions_df>>

\* the body of the loop over range(n_events) (lines 159-257): what one
\* iteration writes
simulate_event ==
    /\ pc = "loop"
    /\ events_left > 0
    /\ \E hour \in DrawnHours, minute \in DrawnMinutes, second \in DrawnSeconds,
          source \in DrawnSources \cap Range(member_ids(members)),
          itype \in DrawnTypes, broadcast \in BOOLEAN,
          platform \in DrawnPlatforms, jitter \in DrawnJitters,
          due_days \in DrawnDueDays :
         \E target \in IF broadcast THEN {NoTarget}
                       ELSE (DrawnSources \cap Range(member_ids(members))) \ {source} :
         \E pick \in IF itype = "task_complete" /\ team_tasks(tasks[1]) # {}
                     THEN team_tasks(tasks[1]) ELSE {0} :
           LET ts(r) == timestamp(START_DATE[r], day_idx, clip_hour(hour),
                                  minute, second)
               rec(r) == [timestamp        |-> ts(r),
                          source           |-> source,
                          target           |-> target,
                          interaction_type |-> itype,
                          platform         |-> platform,
                          weight           |-> event_weight(itype, source, target,
                                                            pair_affinity, jitter)]
           IN  /\ interactions' =
                      [r \in Runs |-> Append(interactions[r], rec(r))]
               /\ tasks' =
                      [r \in Runs |-> tasks_logic(tasks[r], itype, source, target,
                                                  ts(r), due_days, pick)]
    /\ interaction_count' = interaction_count + 1
    /\ IF loop_done(interaction_count + 1)
       THEN /\ pc' = "save"
            /\ events_left' = 0
            /\ UNCHANGED day_idx
       ELSE /\ pc' = pc
            /\ events_left' = events_left - 1
            /\ day_idx' = IF events_left = 1 THEN next_day(day_idx) ELSE day_idx
    /\ UNCHANGED <<error, pipeline_vars, START_DATE, interactions_df>>

\* (variant: a task_complete event makes its source an active member)
GenEventAs ==
    /\ simulate_event
    /\ LET e == interactions'[1][Len(interactions'[1])]
       IN  members' = IF e.interaction_type = "task_complete"
                      THEN set_role(members, {e.source}, "active")
                      ELSE members
    /\ UNCHANGED pair_affinity

\* one iteration of the loop over range(n_events) (lines 159-257); the
\* members table and the pair affinities are only read
GenEvent ==
    /\ simulate_event
    /\ UNCHANGED <<members, pair_affinity>>

\* lines 262-287 when no task is completed: the tasks table has no
\* completed_by column (no status column when there is no task at all), the
\* contribution estimate raises and no file is written
SaveCSVsFails ==
    /\ pc = "save"
    /\ \A i \in DOMAIN tasks[1] : tasks[1][i].status # "completed"
    /\ interactions_df' = [r \in Runs |-> sort_values(interactions[r])]
    /\ pc' = "failed"
    /\ error' = IF tasks[1] = <<>> THEN "AttributeError" ELSE "KeyError"
    /\ UNCHANGED <<members, pipeline_vars, START_DATE, pair_affinity,
                   interactions, tasks, interaction_count, day_idx, events_left>>

\* lines 262-287: the log is sorted by timestamp and the files are written
SaveCSVs ==
    /\ pc = "save"
    /\ \E i \in DOMAIN tasks[1] : tasks[1][i].status = "completed"
    /\ interactions_df' = [r \in Runs |-> sort_values(interactions[r])]
    /\ pc' = "done"
    /\ UNCHANGED <<members, error, pipeline_vars, START_DATE, pair_affinity,
                   interactions, tasks, interaction_count, day_idx, events_left>>

GenNext ==
    \/ DrawEvents
    \/ GenEvent
    \/ SaveCSVsFails
    \/ SaveCSVs

SpecGen == GenInit /\ [][GenNext]_vars

\* a day with at least one event
DrawSomeEvents == DrawEvents /\ events_left' > 0

\* two runs started on the same calendar day
GenInitSameDay == GenInit /\ START_DATE[1] = START_DATE[2]

\* The script keeps running: an event of a day that has events left is
\* generated, and days with at least one event keep occurring.
SpecGenLive ==
    /\ GenInitSameDay
    /\ [][GenNext]_vars
    /\ WF_vars(GenEvent)
    /\ WF_vars(DrawSomeEvents)

(***************************************************************************)
(* The cleaned log: records are appended to it until the pipeline runs     *)
(***************************************************************************)
AppendInteraction ==
    /\ pc = "cleaned"
    /\ Len(clean_interactions) < MaxLog
    /\ \E r \in Interaction :
           /\ r.source \in LogIds(members)
           /\ r.target \in LogIds(members) \cup {NoTarget}
           /\ clean_interactions' = Append(clean_interactions, r)
    /\ UNCHANGED <<pc, members, matrix, weighted, adj_list, G, node_metrics,
                   edge_metrics, team_metrics, patterns, error, generator_vars,
                   raw_interactions>>

Init ==
    /\ pc = "cleaned"
    /\ members \in MemberTables
    /\ error = "none"
    /\ PipelineIdle
    /\ GeneratorIdle

Next ==
    \/ AppendInteraction
    \/ BuildInteractionMatrix
    \/ ComputeMetricsFails
    \/ ComputeMetrics
    \/ DetectPatternsFails
    \/ DetectPatterns

Spec == Init /\ [][Next]_vars

(***************************************************************************)
(* clean_data.py on a raw log.  A raw timestamp is the text of a date,     *)
(* <<day, hour, minute, second>>, or a text that is no date.               *)
(***************************************************************************)
MaxRaw == 2

\* a timestamp text that does not parse, and the NaT it is coerced to
Unparseable == <<0>>
NaT == <<>>

\* values of the fields of raw records; weights in units of 0.0001
RawTimestamps == {<<1, 9, 0, 0>>, <<1, 8, 0, 0>>, Unparseable}
RawWeights == {-10, 0, 10}
RawInteraction ==
    [timestamp : RawTimestamps, source : {1, NoSource},
     target : {2, NoTarget}, weight : RawWeights]

\* pd.to_datetime(..., errors="coerce")
to_datetime(text) == IF text = Unparseable THEN NaT ELSE text

\* the role column merged on source = member_id (how="left")
source_role(mem, source) ==
    LET hit == Rows(mem, LAMBDA r : r.member_id = source)
    IN  IF hit = <<>> THEN "NaN" ELSE hit[1].role

\* lines 29-52: coerce the timestamps, drop the rows without one, sort by
\* timestamp, convert the types (a NaN source becomes the text "nan", which
\* the next stage reads as NaN again), merge the roles
clean(raw, mem) ==
    LET parsed == [i \in DOMAIN raw |->
                      [raw[i] EXCEPT !.timestamp = to_datetime(@)]]
        kept   == sort_values(Rows(parsed, LAMBDA r : r.timestamp # NaT))
    IN  [i \in DOMAIN kept |->
            [timestamp   |-> kept[i].timestamp,
             source      |-> kept[i].source,
             target      |-> kept[i].target,
             weight      |-> kept[i].weight,
             source_role |-> source_role(mem, kept[i].source)]]

AppendRawInteraction ==
    /\ pc = "raw"
    /\ Len(raw_interactions) < MaxRaw
    /\ \E r \in RawInteraction : raw_interactions' = Append(raw_interactions, r)
    /\ UNCHANGED <<pc, members, error, clean_interactions, matrix, weighted,
                   adj_list, G, node_metrics, edge_metrics, team_metrics,
                   patterns, generator_vars>>

CleanData ==
    /\ pc = "raw"
    /\ clean_interactions' = clean(raw_interactions, members)
    /\ pc' = "cleaned"
    /\ UNCHANGED <<members, error, raw_interactions, matrix, weighted,
                   adj_list, G, node_metrics, edge_metrics, team_metrics,
                   patterns, generator_vars>>

CleanInit ==
    /\ pc = "raw"
    /\ members \in {t \in MemberTables : Len(t) = 2}
    /\ error = "none"
    /\ PipelineIdle
    /\ GeneratorIdle

\* the cleaning stage, and the matrix stage on the file it writes
CleanNext ==
    \/ AppendRawInteraction
    \/ CleanData
    \/ BuildInteractionMatrixFails
    \/ BuildInteractionMatrix

SpecClean == CleanInit /\ [][CleanNext]_vars

(***************************************************************************)
(* The matrix and metrics stages on logs of a team of three with a leader, *)
(* whose records have the weights 1 and 5, or weights whose sums are not   *)
(* doubles (0.1 + 0.2) or fall on a tie of round(x, 3) (0.6015)            *)
(***************************************************************************)
MaxScenarioLog == 4

\* the records such a log is made of: M001 -> M002 and M002 -> M001 of
\* weight 1, M003 -> M001 of weight 5, a broadcast of M002, M001 -> M002 of
\* weight 0.1, 0.2 and 0.3015, M001 -> M003 of weight 0.2 and M002 -> M003
\* of weight 0.3
ScenarioInteraction ==
    { [source |-> 1, target |-> 2,        weight |-> 10000],
      [source |-> 2, target |-> 1,        weight |-> 10000],
      [source |-> 3, target |-> 1,        weight |-> 50000],
      [source |-> 2, target |-> NoTarget, weight |-> 10000],
      [source |-> 1, target |-> 2,        weight |-> 1000],
      [source |-> 1, target |-> 2,        weight |-> 2000],
      [source |-> 1, target |-> 2,        weight |-> 3015],
      [source |-> 1, target |-> 3,        weight |-> 2000],
      [source |-> 2, target |-> 3,        weight |-> 3000] }

AppendScenarioInteraction ==
    /\ pc = "cleaned"
    /\ Len(clean_interactions) < MaxScenarioLog
    /\ \E r \in ScenarioInteraction :
           clean_interactions' = Append(clean_interactions, r)
    /\ UNCHANGED <<pc, members, matrix, weighted, adj_list, G, node_metrics,
                   edge_metrics, team_metrics, patterns, error, generator_vars,
                   raw_interactions>>

ScenarioInit ==
    /\ pc = "cleaned"
    /\ members \in {t \in MemberTables : Len(t) = 3}
    /\ error = "none"
    /\ PipelineIdle
    /\ GeneratorIdle

\* the matrix and the metrics stage
ScenarioNext ==
    \/ AppendScenarioInteraction
    \/ BuildInteractionMatrix
    \/ ComputeMetricsFails
    \/ ComputeMetrics

SpecScenario == ScenarioInit /\ [][ScenarioNext]_vars

(***************************************************************************)
(* detect_patterns.py on metric files of any content.  A score of a file   *)
(* is the decimal text it holds, in units of 1/25000.                      *)
(***************************************************************************)
MaxRows == 3

\* activity scores of node_metrics.csv (-0.4, 0, 0.4, 0.6, 1.6 and 2.4) and
\* weights of edge_metrics.csv (0, 0.001, 0.003 and 0.009)
ActivityScores == {-10000, 0, 10000, 15000, 40000, 60000}
EdgeWeights == {0, 10, 30, 90}

\* the columns of the row of a leader and of its team mates: scores (0.2,
\* 0.6 and 2.2), degree centralities (0.5 and 1.0) and total_received
LeaderScores == {5000, 15000, 55000}
LeaderDegrees == {<<1, 2>>, <<2, 2>>}
LeaderReceived == {0, 1, 2}

\* the double read_csv makes of the text of an activity score
score_value(u) == float(u, 25000)

\* node_metrics.csv with the columns the script reads
NodeTable(scores, degrees, received) ==
    [i \in DOMAIN scores |->
        [member_id         |-> i,
         total_sent        |-> IF scores[i] = 0 THEN 0 ELSE 1,
         total_received    |-> received[i],
         degree_centrality |-> degrees[i],
         activity_score    |-> score_value(scores[i])]]

\* edge_metrics.csv of the edges M001 -> M002, M002 -> M003, ...
EdgeTable(weights) ==
    edge_metrics_of([i \in DOMAIN weights |->
                        [source |-> i, target |-> i + 1, count |-> 1,
                         weight |-> weights[i]]])

\* clean_members.csv of a team of three whose leader is M001
LeaderTeam == [build_team(3) EXCEPT ![1].role = "leader"]

\* The files the script is started on: node metrics of any scores next to
\* one edge, edges of any weights next to two members, or the rows of a
\* leader and two team mates next to one edge.
ListsInit ==
    /\ pc = "metrics"
    /\ error = "none"
    /\ \/ \E n \in 1..MaxRows : \E scores \in [1..n -> ActivityScores] :
              /\ members = build_team(n)
              /\ node_metrics = NodeTable(scores, [i \in 1..n |-> <<1, 1>>],
                                          [i \in 1..n |-> 0])
              /\ edge_metrics = EdgeTable(<<10>>)
       \/ \E n \in 1..MaxRows : \E weights \in [1..n -> EdgeWeights] :
              /\ members = build_team(2)
              /\ node_metrics = NodeTable(<<10000, 10000>>,
                                          <<<<1, 1>>, <<1, 1>>>>, <<0, 0>>)
              /\ edge_metrics = EdgeTable(weights)
       \/ \E scores \in [1..3 -> LeaderScores],
             degrees \in [1..3 -> LeaderDegrees],
             received \in [1..3 -> LeaderReceived] :
              /\ members = LeaderTeam
              /\ node_metrics = NodeTable(scores, degrees, received)
              /\ edge_metrics = EdgeTable(<<10>>)
    /\ raw_interactions = <<>>
    /\ clean_interactions = <<>>
    /\ matrix = <<>>
    /\ weighted = <<>>
    /\ adj_list = <<>>
    /\ G = [nodes |-> {}, edges |-> {}, weight |-> <<>>]
    /\ team_metrics = <<>>
    /\ patterns = <<>>
    /\ GeneratorIdle

\* one run of the script
ListsNext ==
    \/ DetectPatternsFails
    \/ DetectPatterns

SpecLists == ListsInit /\ [][ListsNext]_vars

(***************************************************************************)
(* Properties of the pipeline                                              *)
(***************************************************************************)
MatrixBuilt == pc # "cleaned"
MetricsComputed == pc \in {"metrics", "patterns"} \/ error = "ZeroDivisionError"
PatternsListed == pc = "patterns" \/ error = "ZeroDivisionError"

\* the log records from s to t, and the broadcasts of s
Between(s, t) ==
    Rows(clean_interactions, LAMBDA r : r.source = s /\ r.target = t)
Broadcasts(s) ==
    Rows(clean_interactions, LAMBDA r : r.source = s /\ r.target = NoTarget)
WeightSum(recs) == SumSeq([i \in 1..Len(recs) |-> recs[i].weight])
EdgeRows(s, t) == Rows(adj_list, LAMBDA e : e.source = s /\ e.target = t)

\* the edge structure of claim C1, with a given relation between an edge's
\* weight and the sum of the weights of its interactions
EdgesMatchLog(WeightOk(_, _)) ==
    /\ \A i \in DOMAIN adj_list :
           adj_list[i].source \in Ids /\ adj_list[i].target \in Ids
    /\ \A s \in Ids, t \in Ids :
           IF Between(s, t) = <<>>
           THEN EdgeRows(s, t) = <<>>
           ELSE /\ Len(EdgeRows(s, t)) = 1
                /\ EdgeRows(s, t)[1].count = Len(Between(s, t))
                /\ WeightOk(EdgeRows(s, t)[1].weight, WeightSum(Between(s, t)))

\* C1 as stated: one edge per ordered pair with a targeted interaction, its
\* count the number of those interactions and its weight exactly the sum of
\* their weights; no edge for any other pair, none from a broadcast.
C1_EdgeWeightIsExactSum ==
    MatrixBuilt => EdgesMatchLog(LAMBDA w, total : w = total)

\* C1 amended: as C1, but the edge weight is the sum of the weights rounded
\* to three decimals (the multiple of 0.001 nearest to the sum).
C1_EdgeWeightIsRoundedSum ==
    MatrixBuilt =>
        EdgesMatchLog(LAMBDA w, total :
            /\ w % 10 = 0
            /\ w - total <= 5
            /\ total - w <= 5)

\* an edge of two interactions whose weights, 0.0004 each, sum to 0.0008:
\* the edge has count 2 and weight 0.001
C1_Witness ==
    /\ pc = "matrix"
    /\ \E s \in Ids, t \in Ids :
           /\ Len(Between(s, t)) = 2
           /\ WeightSum(Between(s, t)) = 8
           /\ Len(EdgeRows(s, t)) = 1
           /\ EdgeRows(s, t)[1].count = 2
           /\ EdgeRows(s, t)[1].weight = 10

MemberIds == {members[i].member_id : i \in DOMAIN members}
\* the sums of the two columns, as metrics["weighted_sent"].sum() gives them
TotalWeightedSent ==
    np_sum([i \in DOMAIN node_metrics |-> node_metrics[i].weighted_sent])
TotalWeightedReceived ==
    np_sum([i \in DOMAIN node_metrics |-> node_metrics[i].weighted_received])
EndPointsAreMembers ==
    \A i \in DOMAIN clean_interactions :
        /\ clean_interactions[i].source \in MemberIds
        /\ clean_interactions[i].target \in MemberIds \cup {NoTarget}

\* C2: for every log, after the metrics are computed, the weighted_sent of
\* all members and the weighted_received of all members have the same sum.
C2_SentEqualsReceived ==
    MetricsComputed => TotalWeightedSent = TotalWeightedReceived

EdgeCountFrom(m) ==
    LET mine == Rows(adj_list, LAMBDA e : e.source = m)
    IN  SumSeq([i \in 1..Len(mine) |-> mine[i].count])

\* C3: for every member m, the counts of the edges that leave m plus the
\* number of broadcasts of m is total_sent[m] as tallied from the log (and
\* as written to the node metrics, when they are computed).
C3_RoundTripTotalSent ==
    MatrixBuilt =>
        /\ \A m \in MemberIds :
               EdgeCountFrom(m) + Len(Broadcasts(m))
                   = total_sent(clean_interactions, m)
        /\ MetricsComputed =>
               \A i \in DOMAIN node_metrics :
                   EdgeCountFrom(node_metrics[i].member_id)
                       + Len(Broadcasts(node_metrics[i].member_id))
                       = node_metrics[i].total_sent

\* a member with a broadcast and two interactions on one edge
C3_Witness ==
    /\ pc = "matrix"
    /\ \E m \in MemberIds :
           /\ Len(Broadcasts(m)) = 1
           /\ EdgeCountFrom(m) = 1
           /\ total_sent(clean_interactions, m) = 2

\* C4: when no interaction has a target, the metrics and pattern stages end
\* without an exception, with density, reciprocity and average clustering 0
\* and no subgroups.
C4_EdgelessGraphYieldsZeros ==
    (pc \notin {"cleaned", "matrix"} /\ adj_list = <<>>) =>
        /\ error = "none"
        /\ team_metrics.density[1] = 0
        /\ team_metrics.reciprocity[1] = 0
        /\ team_metrics.average_clustering[1] = 0
        /\ pc = "patterns" => patterns.subgroups = <<>>

InList(list, m) == \E i \in DOMAIN list : list[i] = m
ListCount(m) ==
    (IF InList(patterns.isolated_members, m) THEN 1 ELSE 0)
    + (IF InList(patterns.passive_members, m) THEN 1 ELSE 0)
    + (IF InList(patterns.dominant_members, m) THEN 1 ELSE 0)

\* C5 as stated: every member is in at most one of the lists
\* isolated_members, passive_members, dominant_members.
C5_AtMostOneList ==
    pc = "patterns" => \A m \in MemberIds : ListCount(m) <= 1

\* C5 amended: for the node metrics of a log with non-negative weights, a
\* member is in at most one of the three lists, except that an isolated
\* member may also be passive; a dominant member is in no other list.
C5_DominantExcludesOthers ==
    PatternsListed =>
        \A m \in MemberIds :
            \/ ListCount(m) <= 1
            \/ /\ InList(patterns.isolated_members, m)
               /\ InList(patterns.passive_members, m)
               /\ ~InList(patterns.dominant_members, m)

\* one member isolated and passive, another one dominant
C5_Witness ==
    /\ pc = "patterns"
    /\ \E m \in MemberIds, d \in MemberIds :
           /\ InList(patterns.isolated_members, m)
           /\ InList(patterns.passive_members, m)
           /\ InList(patterns.dominant_members, d)
           /\ ListCount(d) = 1

\* C6: when the mean activity score is positive, a member with total_sent 0
\* and total_received 0 is in isolated_members and in passive_members.
C6_IsolatedIsPassive ==
    (PatternsListed /\ avg_activity(node_metrics).sign = 1) =>
        \A i \in DOMAIN node_metrics :
            (node_metrics[i].total_sent = 0 /\ node_metrics[i].total_received = 0)
                => /\ InList(patterns.isolated_members, node_metrics[i].member_id)
                   /\ InList(patterns.passive_members, node_metrics[i].member_id)

\* a team with a positive mean activity and a member that neither sent nor
\* received
C6_Witness ==
    /\ pc = "patterns"
    /\ avg_activity(node_metrics).sign = 1
    /\ \E i \in DOMAIN node_metrics :
           /\ node_metrics[i].total_sent = 0
           /\ node_metrics[i].total_received = 0
           /\ node_metrics[i].activity_score = FloatZero
           /\ InList(patterns.passive_members, node_metrics[i].member_id)

\* C9: a record whose source equals its target adds no edge: the built
\* graph has no edge from a member to itself.
C9_NoSelfLoopEdge ==
    /\ MatrixBuilt =>
           \A i \in DOMAIN adj_list : adj_list[i].source # adj_list[i].target
    /\ \A e \in G.edges : e[1] # e[2]

\* C10: after the metrics stage every member is a node of the graph and has
\* exactly one row of node metrics; a member without any interaction has
\* total_sent, total_received, weighted_sent and weighted_received 0.
C10_EveryMemberHasOneRow ==
    pc \in {"metrics", "patterns", "failed"} =>
        \A m \in MemberIds :
            /\ m \in G.nodes
            /\ Len(Rows(node_metrics, LAMBDA r : r.member_id = m)) = 1
            /\ (\A i \in DOMAIN clean_interactions :
                    /\ clean_interactions[i].source # m
                    /\ clean_interactions[i].target # m)
                => LET r == Rows(node_metrics, LAMBDA x : x.member_id = m)[1]
                   IN  /\ r.total_sent = 0
                       /\ r.total_received = 0
                       /\ r.weighted_sent = FloatZero
                       /\ r.weighted_received = FloatZero

\* the log [A->B weight 1, A->B weight 1, B->A weight 1, C->A weight 5], with
\* A = M001 (the leader), B = M002, C = M003
ScenarioLog ==
    << [source |-> 1, target |-> 2, weight |-> 10000],
       [source |-> 1, target |-> 2, weight |-> 10000],
       [source |-> 2, target |-> 1, weight |-> 10000],
       [source |-> 3, target |-> 1, weight |-> 50000] >>

MetricsRow(m) == Rows(node_metrics, LAMBDA r : r.member_id = m)[1]

\* C11: on the log [A->B 1, A->B 1, B->A 1, C->A 5] of the team A (leader),
\* B, C the pipeline yields exactly the edges (A,B) of weight 2, (B,A) of
\* weight 1 and (C,A) of weight 5, total_sent 2, 1, 1 for A, B, C,
\* weighted_sent[C] = 5 and a reciprocity greater than 0.
C11_ScenarioEdgesAndTallies ==
    (clean_interactions = ScenarioLog /\ pc = "metrics") =>
        /\ Len(adj_list) = 3
        /\ {<<adj_list[i].source, adj_list[i].target, adj_list[i].weight>> :
                i \in DOMAIN adj_list}
               = {<<1, 2, 20000>>, <<2, 1, 10000>>, <<3, 1, 50000>>}
        /\ G.edges = {<<1, 2>>, <<2, 1>>, <<3, 1>>}
        /\ G.weight[<<1, 2>>] = 20000
        /\ G.weight[<<2, 1>>] = 10000
        /\ G.weight[<<3, 1>>] = 50000
        /\ MetricsRow(1).total_sent = 2
        /\ MetricsRow(2).total_sent = 1
        /\ MetricsRow(3).total_sent = 1
        /\ MetricsRow(3).weighted_sent = from_int(5)
        /\ team_metrics.reciprocity[1] > 0
        /\ team_metrics.reciprocity[2] > 0

\* the metrics of the scenario log: three edges, two of them reciprocal
C11_Witness ==
    /\ pc = "metrics"
    /\ clean_interactions = ScenarioLog
    /\ Len(adj_list) = 3
    /\ MetricsRow(1).total_sent = 2
    /\ team_metrics.reciprocity = <<2, 3>>

\* the only edges are between a and b and between c and d, and both pairs
\* have one
TwoDisjointPairs(a, b, c, d) ==
    /\ Cardinality({a, b, c, d}) = 4
    /\ MemberIds = {a, b, c, d}
    /\ G.edges \subseteq {<<a, b>>, <<b, a>>, <<c, d>>, <<d, c>>}
    /\ G.edges \cap {<<a, b>>, <<b, a>>} # {}
    /\ G.edges \cap {<<c, d>>, <<d, c>>} # {}

\* C12: for a team of four members a, b, c, d whose only edges are inside
\* {a, b} and inside {c, d}, the pattern detector returns exactly two
\* subgroups, {a, b} and {c, d}.
C12_TwoPairsTwoSubgroups ==
    \A a \in Ids, b \in Ids, c \in Ids, d \in Ids :
        (pc \in {"patterns", "failed"} /\ TwoDisjointPairs(a, b, c, d)) =>
            /\ error = "none"
            /\ Len(patterns.subgroups) = 2
            /\ Range(patterns.subgroups) = {{a, b}, {c, d}}

\* the ways to reorder a log of n records, and a log reordered
Reorderings(n) ==
    {f \in [1..n -> 1..n] : \A i \in 1..n, j \in 1..n : f[i] = f[j] => i = j}
Permuted(log, f) == [i \in DOMAIN log |-> log[f[i]]]

\* the adjacency list the matrix stage builds from a log
AdjOf(log) ==
    LET dfv == df_valid(log)
        mem == matrix_members(dfv)
        m   == matrix_loop(dfv, mem, Len(dfv))
    IN  adj(m.matrix, m.weighted, mem)

\* C17: the records of the log in any other order give the same edges
\* (count and weight) and, for every member, the same total_sent,
\* total_received, weighted_sent and weighted_received.
C17_OrderIndependent ==
    MatrixBuilt =>
        \A f \in Reorderings(Len(clean_interactions)) :
            LET log == Permuted(clean_interactions, f)
                a   == AdjOf(log)
            IN  /\ a = adj_list
                /\ MetricsComputed =>
                       \A i \in DOMAIN node_metrics :
                           LET row == node_metrics[i]
                               m   == row.member_id
                           IN  /\ total_sent(log, m) = row.total_sent
                               /\ total_received(log, m) = row.total_received
                               /\ weighted_sent(a, m) = row.weighted_sent
                               /\ weighted_received(a, m) = row.weighted_received

NoLeader == \A i \in DOMAIN members : members[i].role # "leader"

\* C15: when no member has the role leader, the pattern detector ends
\* without an exception and role_mismatch is the empty list, whatever the
\* node metrics are.
C15_NoLeaderNoMismatch ==
    (NoLeader /\ (pc = "patterns" \/ error = "ZeroDivisionError")) =>
        /\ error = "none"
        /\ patterns.role_mismatch = <<>>

\* C16: after the cleaning stage no retained record has an unparseable
\* timestamp, a missing source or a non-positive weight: every such raw
\* record is rejected and is not in the file the graph builder reads.
C16_MalformedRecordsRejected ==
    pc = "cleaned" =>
        \A i \in DOMAIN clean_interactions :
            /\ clean_interactions[i].timestamp # NaT
            /\ clean_interactions[i].timestamp # Unparseable
            /\ clean_interactions[i].source # NoSource
            /\ clean_interactions[i].weight > 0

(***************************************************************************)
(* Properties of the generator                                             *)
(***************************************************************************)
\* C7: a task changes status at most once, from assigned to completed: a
\* completed task is never selected or modified by a later event, no task
\* returns to assigned, and no task leaves the list.
C7_TaskCompletesAtMostOnce ==
    [][\A r \in Runs : \A i \in DOMAIN tasks[r] :
          /\ i \in DOMAIN tasks'[r]
          /\ tasks[r][i].status = "completed" => tasks'[r][i] = tasks[r][i]
          /\ tasks'[r][i].status = "assigned" => tasks[r][i].status = "assigned"
      ]_vars

\* a task_assign, then two task_complete events of different members: the
\* first one completed the task, the second one found no assigned task
C7_Witness ==
    /\ Len(interactions[1]) = 3
    /\ interactions[1][1].interaction_type = "task_assign"
    /\ interactions[1][2].interaction_type = "task_complete"
    /\ interactions[1][3].interaction_type = "task_complete"
    /\ interactions[1][2].source # interactions[1][3].source
    /\ Len(tasks[1]) = 1
    /\ tasks[1][1].status = "completed"
    /\ tasks[1][1].completed_by = interactions[1][2].source

\* C13: the simulation loop eventually ends (days with at least one event
\* keep occurring), and once it has ended the number of generated
\* interactions is at least TARGET_INTERACTIONS.
C13_LoopEndsAtTarget ==
    /\ <>(pc # "loop")
    /\ [](pc # "loop" =>
             /\ interaction_count >= TARGET_INTERACTIONS
             /\ \A r \in Runs : Len(interactions[r]) >= TARGET_INTERACTIONS)

\* the loop has ended after a pass over the day range that did not reach the
\* target: the last interaction is dated earlier than the one before it
C13_Witness ==
    /\ pc = "save"
    /\ interaction_count >= TARGET_INTERACTIONS
    /\ LET log == interactions[1]
       IN  /\ Len(log) >= TARGET_INTERACTIONS
           /\ ts_less(log[Len(log)].timestamp, log[Len(log) - 1].timestamp)

HasRole(role) == {i \in DOMAIN members : members[i].role = role}

\* C14: after the role assignment of a team of 5 or 6 every member holds one
\* role, exactly one member is leader, one or two are active, at most one
\* is passive, at most one is isolated and the others are regular; a member
\* that is leader or active never becomes passive or isolated.
C14_RoleAssignment ==
    /\ [](pc = "roles" =>
             /\ Len(members) \in {5, 6}
             /\ \A i \in DOMAIN members :
                    /\ members[i].member_id = i
                    /\ members[i].role \in {"leader", "active", "regular",
                                            "passive", "isolated"}
             /\ Cardinality(HasRole("leader")) = 1
             /\ Cardinality(HasRole("active")) \in {1, 2}
             /\ Cardinality(HasRole("passive")) <= 1
             /\ Cardinality(HasRole("isolated")) <= 1)
    /\ [][\A i \in DOMAIN members :
              members[i].role \in {"leader", "active"} =>
                  members'[i].role = members[i].role]_vars

\* the team of the simulated runs: one member of each special role
C14_Witness ==
    /\ pc = "roles"
    /\ \E team \in GenTeams : members = team.members
    /\ Cardinality(HasRole("passive")) = 1
    /\ Cardinality(HasRole("isolated")) = 1

\* the tasks of a list that are in state assigned
Assigned(ts) == {i \in DOMAIN ts : ts[i].status = "assigned"}

\* the step appends a task_complete interaction to the log of run r
TaskCompleteEvent(r) ==
    /\ Len(interactions'[r]) = Len(interactions[r]) + 1
    /\ interactions'[r][Len(interactions'[r])].interaction_type = "task_complete"

\* C18: a task_complete event that finds at least one assigned task turns
\* exactly one of the assigned tasks, whoever assigned it and to whom, into
\* completed, with completed_by the source of the event, and leaves every
\* other task as it is; one that finds no assigned task changes no task.
C18_TaskCompleteChangesOneTask ==
    [][\A r \in Runs :
          TaskCompleteEvent(r) =>
              LET ev == interactions'[r][Len(interactions'[r])]
              IN  IF Assigned(tasks[r]) = {}
                  THEN tasks'[r] = tasks[r]
                  ELSE /\ DOMAIN tasks'[r] = DOMAIN tasks[r]
                       /\ \E i \in Assigned(tasks[r]) :
                              /\ tasks'[r][i] =
                                     [tasks[r][i] EXCEPT
                                         !.status = "completed",
                                         !.completed_by = ev.source,
                                         !.completed_at = ev.timestamp]
                              /\ \A j \in DOMAIN tasks[r] \ {i} :
                                     tasks'[r][j] = tasks[r][j]
      ]_vars

\* two tasks were assigned and a task_complete event followed: the second
\* task is completed by a member that neither assigned it nor was assigned
\* to it, the first one is still assigned
C18_Witness ==
    /\ Len(tasks[1]) = 2
    /\ Len(interactions[1]) = 3
    /\ interactions[1][3].interaction_type = "task_complete"
    /\ tasks[1][1].status = "assigned"
    /\ tasks[1][2].status = "completed"
    /\ tasks[1][2].completed_by = interactions[1][3].source
    /\ tasks[1][2].completed_by # tasks[1][2].assigned_by
    /\ tasks[1][2].completed_by # tasks[1][2].assigned_to

\* C19: every completed task has a completed_at that is not earlier than
\* its assigned_at.
C19_CompletedNotBeforeAssigned ==
    \A r \in Runs : \A i \in DOMAIN tasks[r] :
        tasks[r][i].status = "completed" =>
            ~ts_less(tasks[r][i].completed_at, tasks[r][i].assigned_at)

\* C20 as stated: when the count reaches the target the generator finishes
\* the events of the current day: the loop is left only with the last event
\* of a day (and so can end with more than TARGET_INTERACTIONS).
C20_FinishesCurrentDay ==
    [][(pc = "loop" /\ pc' # "loop") => events_left = 1]_vars

\* C20 amended: when the count reaches the target the generator stops at
\* once, whatever events the current day has left, and does not cut the log
\* afterwards: a run ends with exactly TARGET_INTERACTIONS interactions.
C20_StopsExactlyAtTarget ==
    pc # "loop" =>
        /\ interaction_count = TARGET_INTERACTIONS
        /\ \A r \in Runs :
               /\ Len(interactions[r]) = TARGET_INTERACTIONS
               /\ pc \in {"done", "failed"} =>
                      Len(interactions_df[r]) = TARGET_INTERACTIONS

\* the files of a run are written: the log has TARGET_INTERACTIONS records,
\* two of them of one day
C20_Witness ==
    /\ pc = "done"
    /\ interaction_count = TARGET_INTERACTIONS
    /\ Len(interactions_df[1]) = TARGET_INTERACTIONS
    /\ interactions_df[1][1].timestamp = interactions_df[1][2].timestamp

\* C8: two runs with the same seed and the same parameters write the same
\* interaction log, record for record, whatever the wall clock shows when
\* each of them starts.
C8_SameSeedSameLog ==
    pc = "done" => interactions_df[1] = interactions_df[2]


\* fractions compared, and the mean of a list of fractions
FracLess(a, b) == a[1] * b[2] < b[1] * a[2]
FracMean(s) == <<FracSum(s)[1], FracSum(s)[2] * Len(s)>>

\* the decimal a file holds as an activity score, in units of 1/25000
score_text(x) ==
    CHOOSE u \in ActivityScores \cup LeaderScores : score_value(u) = x

\* the node metrics row of the leader, and the three conditions on it, on
\* the numbers the files hold
LeaderStats ==
    LET leader == CHOOSE m \in MemberIds :
                      \E i \in DOMAIN members :
                          members[i].member_id = m /\ members[i].role = "leader"
    IN  MetricsRow(leader)
LeaderLowDegree ==
    FracLess(LeaderStats.degree_centrality,
             FracMean([i \in DOMAIN node_metrics |->
                          node_metrics[i].degree_centrality]))
LeaderInactive ==
    FracLess(<<score_text(LeaderStats.activity_score), 1>>,
             <<6 * SumSeq([i \in DOMAIN node_metrics |->
                              score_text(node_metrics[i].activity_score)]),
               10 * Len(node_metrics)>>)
LeaderLowReceived ==
    FracLess(<<LeaderStats.total_received, 1>>,
             <<5 * SumSeq([i \in DOMAIN node_metrics |->
                              node_metrics[i].total_received]),
               10 * Len(node_metrics)>>)

\* C21: when a leader exists, role_mismatch holds one reason for each of
\* the three conditions that holds (degree centrality below the team mean,
\* activity score below 0.6 times the team mean, total received below 0.5
\* times the team mean), in that order, and nothing else; it is empty
\* exactly when none of the three holds.
C21_RoleMismatchReasons ==
    (pc = "patterns" /\ ~NoLeader) =>
        /\ patterns.role_mismatch =
               (IF LeaderLowDegree
                THEN <<"Leader has low degree centrality (not well-connected).">>
                ELSE <<>>)
               \o (IF LeaderInactive
                   THEN <<"Leader is unusually inactive.">> ELSE <<>>)
               \o (IF LeaderLowReceived
                   THEN <<"Leader receives unusually low communication.">>
                   ELSE <<>>)
        /\ patterns.role_mismatch = <<>>
               <=> ~(LeaderLowDegree \/ LeaderInactive \/ LeaderLowReceived)


AllActivityZero ==
    \A i \in DOMAIN node_metrics : node_metrics[i].activity_score = FloatZero

\* C22: when every member's activity score is zero, the passive and the
\* dominant threshold are zero, every member is in isolated_members, every
\* member's score equals the passive threshold, so that passive_members
\* and dominant_members are empty, and the detector does not fail.
C22_AllZeroActivity ==
    (PatternsListed /\ AllActivityZero) =>
        /\ error = "none"
        /\ fmul(avg_activity(node_metrics), F_0_4) = FloatZero
        /\ fmul(avg_activity(node_metrics), F_1_8) = FloatZero
        /\ patterns.isolated_members = [i \in DOMAIN members |-> members[i].member_id]
        /\ \A i \in DOMAIN node_metrics :
               node_metrics[i].activity_score
                   = fmul(avg_activity(node_metrics), F_0_4)
        /\ patterns.passive_members = <<>>
        /\ patterns.dominant_members = <<>>


\* an edge row as the pair lists hold it, and the mean edge weight
PairOf(e) == [source |-> e.source, target |-> e.target, weight |-> e.weight]
MeanWeight ==
    <<SumSeq([i \in DOMAIN edge_metrics |-> edge_metrics[i].weight]),
      Len(edge_metrics)>>
IsStrong(e) == ~FracLess(<<e.weight, 1>>, <<15 * MeanWeight[1], 10 * MeanWeight[2]>>)
IsWeak(e) == ~FracLess(<<5 * MeanWeight[1], 10 * MeanWeight[2]>>, <<e.weight, 1>>)
EdgeRows23 == {edge_metrics[i] : i \in DOMAIN edge_metrics}

\* C23: an edge is in strong_pairs exactly when its weight is at least 1.5
\* times the mean edge weight and in weak_pairs exactly when its weight is
\* at most 0.5 times the mean; when all weights are positive no edge is in
\* both lists, and when all edges have one positive weight both are empty.
C23_StrongAndWeakPairs ==
    PatternsListed =>
        /\ Range(patterns.strong_pairs) = {PairOf(e) : e \in {x \in EdgeRows23 : IsStrong(x)}}
        /\ Range(patterns.weak_pairs) = {PairOf(e) : e \in {x \in EdgeRows23 : IsWeak(x)}}
        /\ Len(patterns.strong_pairs) = Cardinality({x \in EdgeRows23 : IsStrong(x)})
        /\ Len(patterns.weak_pairs) = Cardinality({x \in EdgeRows23 : IsWeak(x)})
        /\ (\A e \in EdgeRows23 : e.weight > 0) =>
               Range(patterns.strong_pairs) \cap Range(patterns.weak_pairs) = {}
        /\ (\E w \in EdgeWeights : w > 0 /\ \A e \in EdgeRows23 : e.weight = w) =>
               patterns.strong_pairs = <<>> /\ patterns.weak_pairs = <<>>


\* the largest weight of edge_metrics; a norm_weight <<x, 0>> is x / 0.0,
\* the not-a-number of 0.0 / 0.0 when x = 0
MaxWeight ==
    CHOOSE w \in {edge_metrics[i].weight : i \in DOMAIN edge_metrics} :
        \A i \in DOMAIN edge_metrics : edge_metrics[i].weight <= w
IsNaN(q) == q[1] = 0 /\ q[2] = 0

\* C24: when every edge weight is zero the metrics stage fails or gives
\* every edge the norm_weight 0, never a not-a-number; when the largest
\* weight is positive every norm_weight is in [0, 1] and is 1 on every
\* edge of the largest weight.
C24_NormWeightDefined ==
    (pc = "metrics" /\ edge_metrics # <<>>) =>
        \A i \in DOMAIN edge_metrics :
            LET q == edge_metrics[i].norm_weight
            IN  /\ ~IsNaN(q)
                /\ MaxWeight = 0 => q[1] = 0 /\ q[2] # 0
                /\ MaxWeight > 0 =>
                       /\ 0 <= q[1] /\ q[1] <= q[2]
                       /\ edge_metrics[i].weight = MaxWeight => q[1] = q[2]


\* the events of a type in a log
EventsOf(log, itype) == Rows(log, LAMBDA e : e.interaction_type = itype)

\* a log read in the order its events occurred: <<tasks in state assigned,
\* task_complete events that found a task in state assigned>>
RECURSIVE Replay(_)
Replay(log) ==
    IF log = <<>> THEN <<0, 0>>
    ELSE LET before == Replay(SubSeq(log, 1, Len(log) - 1))
             itype  == log[Len(log)].interaction_type
         IN  IF itype = "task_assign" THEN <<before[1] + 1, before[2]>>
             ELSE IF itype = "task_complete" /\ before[1] > 0
                  THEN <<before[1] - 1, before[2] + 1>>
                  ELSE before

Completed(ts) == {i \in DOMAIN ts : ts[i].status = "completed"}

\* C25: at the end of a run the task list has one task for each task_assign
\* interaction of the log, and as many completed tasks as there were
\* task_complete interactions at a time when a task was assigned; so the
\* completed tasks outnumber neither the task_complete nor the task_assign
\* interactions.
C25_TasksConsistentWithLog ==
    pc # "loop" =>
        \A r \in Runs :
            /\ Len(tasks[r]) = Len(EventsOf(interactions[r], "task_assign"))
            /\ Cardinality(Completed(tasks[r])) = Replay(interactions[r])[2]
            /\ Cardinality(Completed(tasks[r]))
                   <= Len(EventsOf(interactions[r], "task_complete"))
            /\ Cardinality(Completed(tasks[r]))
                   <= Len(EventsOf(interactions[r], "task_assign"))
            /\ pc = "done" =>
                   Len(EventsOf(interactions_df[r], "task_assign")) = Len(tasks[r])

\* the files of a run are written whose log has a task_complete event that
\* found no assigned task, a task_assign event and a task_complete event
\* that completed the task
C25_Witness ==
    /\ pc = "done"
    /\ Len(tasks[1]) = 1
    /\ Cardinality(Completed(tasks[1])) = 1
    /\ Len(EventsOf(interactions[1], "task_complete")) = 2


\* C26: once the simulation loop has started no event, of any type,
\* changes the role of a member, the member list or a pair affinity: they
\* are what they were before the first event.
C26_TeamFixedDuringSimulation ==
    [][members' = members /\ pair_affinity' = pair_affinity]_vars

\* the loop has generated a task_assign event and a task_complete event of
\* the leader that completed the task
C26_Witness ==
    /\ interaction_count >= 2
    /\ \E i \in DOMAIN tasks[1] :
           /\ tasks[1][i].status = "completed"
           /\ role_of(members, tasks[1][i].completed_by) = "leader"
    /\ pair_affinity # <<>>


\* C27: every interaction of the generator has a source that is a member
\* and a target that is absent or a member other than the source; a pair
\* affinity is defined and greater than 0 for every ordered pair of
\* distinct members.
C27_EndPointsAndAffinities ==
    /\ \A r \in Runs : \A i \in DOMAIN interactions[r] :
           LET e == interactions[r][i]
           IN  /\ e.source \in MemberIds
               /\ e.target = NoTarget \/ e.target \in MemberIds \ {e.source}
    /\ \A r \in Runs : \A i \in DOMAIN interactions_df[r] :
           LET e == interactions_df[r][i]
           IN  /\ e.source \in MemberIds
               /\ e.target = NoTarget \/ e.target \in MemberIds \ {e.source}
    /\ \A a \in MemberIds, b \in MemberIds :
           a # b => /\ <<a, b>> \in DOMAIN pair_affinity
                    /\ pair_affinity[<<a, b>>].sign = 1

\* the files are written of a run with a broadcast and an interaction with
\* a target, in a team with an isolated member
C27_Witness ==
    /\ pc = "done"
    /\ \E i \in DOMAIN interactions_df[1] : interactions_df[1][i].target = NoTarget
    /\ \E i \in DOMAIN interactions_df[1] : interactions_df[1][i].target # NoTarget
    /\ \E m \in MemberIds : role_of(members, m) = "isolated"


\* C28: on a log whose sources and targets are all members, with weights
\* that are not negative, a member in isolated_members has weighted_sent 0
\* and activity_score 0 and is not in dominant_members.
C28_IsolatedHasNoActivity ==
    (PatternsListed /\ EndPointsAreMembers
        /\ \A i \in DOMAIN clean_interactions : clean_interactions[i].weight >= 0) =>
        \A m \in Range(patterns.isolated_members) :
            /\ MetricsRow(m).weighted_sent = FloatZero
            /\ MetricsRow(m).activity_score = FloatZero
            /\ m \notin Range(patterns.dominant_members)

\* patterns of a log among members that leaves one member isolated and
\* makes another one dominant
C28_Witness ==
    /\ pc = "patterns"
    /\ EndPointsAreMembers
    /\ patterns.isolated_members # <<>>
    /\ patterns.dominant_members # <<>>
    /\ \E i \in DOMAIN node_metrics : node_metrics[i].weighted_sent.sign = 1


NonNegativeScores ==
    \A i \in DOMAIN node_metrics : node_metrics[i].activity_score.sign >= 0

\* C29: for node metrics whose activity scores are not negative, no member
\* is in passive_members and in dominant_members.
C29_PassiveAndDominantDisjoint ==
    (PatternsListed /\ NonNegativeScores) =>
        Range(patterns.passive_members) \cap Range(patterns.dominant_members) = {}

\* node metrics without a negative score that have a passive and a
\* dominant member
C29_Witness ==
    /\ PatternsListed
    /\ NonNegativeScores
    /\ patterns.passive_members # <<>>
    /\ patterns.dominant_members # <<>>


\* the subgroups are a partition of a set of nodes
IsPartition(groups, nodes) ==
    /\ \A i \in DOMAIN groups : groups[i] # {}
    /\ UNION Range(groups) = nodes
    /\ \A i \in DOMAIN groups, j \in DOMAIN groups :
           i # j => groups[i] \cap groups[j] = {}
    /\ \A v \in nodes :
           (\A e \in G.edges : v \notin {e[1], e[2]}) =>
               \E i \in DOMAIN groups : groups[i] = {v}

\* C30: whenever the graph has at least one edge, the subgroups the
\* detector returns are a partition of the nodes of the graph: every member
\* is in exactly one subgroup, a member without an edge in a subgroup of
\* its own, and no subgroup is empty.
C30_SubgroupsPartitionNodes ==
    (PatternsListed /\ G.edges # {}) =>
        /\ error = "none"
        /\ MemberIds \subseteq G.nodes
        /\ IsPartition(patterns.subgroups, G.nodes)

====
